---- MODULE Spec2Model ----
(***************************************************************************)
(* Task orchestration of the invoice OCR engine.                           *)
(*                                                                         *)
(* Two variants of the pipeline live in the repository:                    *)
(*   - the in-process variant of app/main.py: upload_files registers the   *)
(*     task in processing_tasks and schedules process_file_directly or     *)
(*     process_multiple_files_directly as a background coroutine on the    *)
(*     server's event loop, next to the cancel/status/download handlers;   *)
(*   - the queued-worker variant of app/celery_app.py: process_file_task   *)
(*     and process_multiple_files_task report through update_state and     *)
(*     remove the temporary directory in a finally block.                  *)
(*                                                                         *)
(* Coroutines of one event loop interleave only at an await.  A worker     *)
(* position named "w_..." is an await the worker is suspended at; a        *)
(* position named "s_..." is inside synchronous code, during which no      *)
(* other handler runs (LoopFree).                                          *)
(***************************************************************************)
EXTENDS Integers, Sequences, FiniteSets, TLC

\* ---------------------------------------------------------------- bounds
MaxFiles == 2        \* uploaded files per request (len(files))
MaxProcessed == 2    \* entries file_handler.process_upload yields per task

\* task ids: uuid4 values; every handler touches only its own id's entries
TaskIds == {"t1"}

\* str(e) of the exceptions the collaborators raise
ErrTexts == {"boom", "Task exceeded time limit"}

VARIABLES
    processing_tasks,   \* main.py:56   dict task_id -> ProcessingStatus
    direct_results,     \* main.py:57   dict task_id -> result payload
    pc,                 \* position of upload_files / the background worker per task
    file_paths,         \* len(file_paths) saved by upload_files, per task
    path_idx,           \* idx of the preprocessing loop (multi-file worker)
    processed_files,    \* len(processed_files), per task
    loop_i,             \* i of the extraction loop
    temp_dir,           \* per task: the files present in its temp dir, or "absent" marker
    http_reply,         \* body/status of the last HTTP reply sent
    cancel_issued,      \* history: ids for which cancel answered "cancelled successfully"
    hist,               \* history: per task, the statuses written so far, in order
    celery_backend,     \* celery_app.py: dict task_id -> state and meta set by update_state
    task_outcome,       \* celery_app.py: how the task function ended, and its return value
    limit_fired,        \* ids whose run has received SoftTimeLimitExceeded
    settings,           \* ocr_engine.py: settings.BATCH_SIZE and settings.MAX_WORKERS
    redis,              \* ocr_engine.py:33/38  self.redis: None or the client
    redis_store,        \* the key-value store behind the client: key -> stored string
    documents,          \* ocr_engine.py:40  the documents of the process_documents call
    pd_pc,              \* position of process_documents
    batch_index,        \* ocr_engine.py:53  index of the batch being awaited
    results,            \* ocr_engine.py:41  dict filename -> result
    pd_status,          \* ocr_engine.py:58  the status computed after the last batch
    doc,                \* per document: the state of its _process_document coroutine
    calls,              \* history: process_documents calls made so far
    reached_store,      \* history: contents whose extraction got as far as the store of line 115-118
    ocr_results,        \* data_extractor.py:27  the argument of extract_data
    docai_result,       \* data_extractor.py:177 the docai_result argument
    extracted,          \* what the extractor call made last returned or raised
    parse_input,        \* data_extractor.py:388  the amount_string argument of _parse_decimal
    invoices,           \* exporter.py:22  the invoices argument of export_invoices
    exported,           \* what the exporter call returned or raised
    cleanup_log,        \* history: the cleanup steps run on a temp dir, with their errors
    docai_request       \* ocr_engine.py:276-289  what one document sent to the collaborators

\* the variables of the task orchestration (main.py, celery_app.py)
task_vars == <<processing_tasks, direct_results, pc, file_paths, path_idx,
               processed_files, loop_i, temp_dir, http_reply, cancel_issued, hist,
               celery_backend, task_outcome, limit_fired>>
\* the variables of OCREngine (ocr_engine.py)
engine_vars == <<settings, redis, redis_store, documents, pd_pc, batch_index, results,
                 pd_status, doc, calls, reached_store>>
\* the variables of DataExtractor (data_extractor.py)
extract_vars == <<ocr_results, docai_result, extracted>>
\* what a step of the task orchestration leaves alone
other_vars == <<engine_vars, extract_vars, parse_input, invoices, exported, cleanup_log,
               docai_request>>
\* the variables of the exporter (exporter.py), of _parse_decimal and of the cleanup steps
aux_vars == <<parse_input, invoices, exported, cleanup_log, docai_request>>

vars == <<task_vars, engine_vars, extract_vars, aux_vars>>

\* the variables only the queued-worker variant writes, and only the in-process one
celery_vars == <<celery_backend, task_outcome, limit_fired>>
direct_vars == <<processing_tasks, direct_results, http_reply, cancel_issued>>

\* ------------------------------------------------------------ data model
\* progress is a float field (models.py:87); a value is kept as the exact
\* fraction n/d, since the queued-worker variant stores 20 + i/total*40 unrounded
Frac(n, d) == [n |-> n, d |-> d]
Whole(p) == Frac(p, 1)
FracLeq(a, b) == a.n * b.d <= b.n * a.d
FracEq(a, b) == a.n * b.d = b.n * a.d

\* models.py:85-88
ProcessingStatus(s, p, m) == [status |-> s, progress |-> Whole(p), message |-> m]

\* temp dir contents: NoDir when the directory does not exist
NoDir == {"<no directory>"}
HasDir(t) == temp_dir[t] # NoDir

\* a dict update d[k] = v
Put(d, k, v) == [x \in (DOMAIN d) \cup {k} |-> IF x = k THEN v ELSE d[x]]

\* a write of the status of task t, as getStatus will see it
SetStatus(t, st) ==
    /\ processing_tasks' = Put(processing_tasks, t, st)
    /\ hist' = [hist EXCEPT ![t] = Append(@, st)]

csv_path(t) == t \o "_invoices.csv"
excel_path(t) == t \o "_invoices.xlsx"

\* main.py:143-154, the payload of a completed task
SuccessResult(t) ==
    [status |-> "Completed", progress |-> 100, message |-> "Processing completed",
     paths |-> {csv_path(t), excel_path(t)}, temp_dir |-> TRUE,
     validation_results |-> TRUE, anomalies |-> TRUE]

\* main.py:164, the payload of a failed task: status and message only
FailedResult(e) ==
    [status |-> "Failed", progress |-> -1, message |-> e,
     paths |-> {}, temp_dir |-> FALSE,
     validation_results |-> FALSE, anomalies |-> FALSE]

\* positions inside synchronous code of a worker (main.py:111-159)
SyncPositions == {"s_60", "s_validate", "s_export", "s_write_csv", "s_write_excel", "s_publish"}
\* the event loop is free: every coroutine is suspended at an await or ended
LoopFree == \A t \in TaskIds : pc[t] \notin SyncPositions

IsMulti(t) == file_paths[t] # 1     \* main.py:277

\* a loop that counted its entries from one
LoopProgress_one_based(i, total) == 20 + ((40 * (i + 1)) \div total)
\* int(progress) of main.py:107-108 / 189-190
LoopProgress(i, total) == 20 + ((40 * i) \div total)
\* int(progress) of main.py:176-178
PreProgress(idx, n) == (20 * (idx + 1)) \div n

\* an HTTP reply: status code and detail/body; a /status reply carries the status
NoStatus == ProcessingStatus("<none>", 0, "")
Reply(code, detail) == [code |-> code, detail |-> detail, status |-> NoStatus]
StatusReply(st) == [code |-> 200, detail |-> "status", status |-> st]

\* how a task function ended: still running, returned a value, or raised
NoOutcome == [how |-> "running", message |-> ""]

FilesWord(t) == IF IsMulti(t) THEN " batches" ELSE " files"

\* ------------------------------------------------- OCREngine: data model
MaxDocs == 2         \* documents handed to one process_documents call
MaxCalls == 2        \* process_documents calls made on one engine

MAX_WORKERS_default == 5     \* config.py:24

\* tenacity's retry(stop=stop_after_attempt(3),
\*                  wait=wait_exponential(multiplier=1, min=4, max=10)), ocr_engine.py:68, 256
stop_after_attempt == 3
wait_multiplier == 1
wait_min == 4
wait_max == 10

Max(a, b) == IF a >= b THEN a ELSE b
Min(a, b) == IF a <= b THEN a ELSE b

RECURSIVE Pow2(_)
Pow2(n) == IF n <= 0 THEN 1 ELSE 2 * Pow2(n - 1)

\* the seconds slept after attempt number `attempt` failed:
\* max(max(0, min), min(multiplier * 2 ** (attempt - 1), max))
wait_exponential(attempt) ==
    Max(Max(0, wait_min), Min(wait_multiplier * Pow2(attempt - 1), wait_max))

\* the documents of a call: dicts with a filename and the content bytes
Filenames == {"f1", "f2"}
Contents == {"a", "b"}
Document(f, c) == [filename |-> f, content |-> c]
\* the first document is fixed up to renaming; the others range over all
DocumentLists ==
    {<<Document("f1", "a")>> \o tail :
        tail \in UNION {[1..n -> [filename : Filenames, content : Contents]] : n \in 0..(MaxDocs - 1)}}

\* hashlib.md5(content).hexdigest(): one digest per content, no two alike here
md5(content) == "md5(" \o content \o ")"
\* ocr_engine.py:89, 117
cache_key(d) == "ocr:" \o md5(d.content)

\* what _process_document hands back.  extract_invoice_data is a coroutine
\* function called without await (ocr_engine.py:113): extracted_data is the
\* coroutine object, which remembers the document and the docai outcome
NoResult == [kind |-> "none", of |-> "", docai |-> ""]
Coroutine(content, docai) == [kind |-> "coroutine", of |-> content, docai |-> docai]

\* json.dumps(value): a string for dicts, lists, strings and numbers;
\* TypeError for any other object, a coroutine among them
json_dumps(v) == [ok |-> v.kind = "json", text |-> "json(" \o v.of \o "," \o v.docai \o ")"]
\* json.loads of a stored string gives back the dict that was dumped
json_loads(stored) == [kind |-> "json", of |-> stored.of, docai |-> stored.docai]

\* the state of one _process_document coroutine (with its retry wrapper)
\* docai_attempt counts the attempts of the _get_docai_results call under way,
\* docai is what that call returned; after_store tells that the call was made
\* after an extraction of the same content had reached the store
FreshDoc ==
    [pc |-> "pending", attempt |-> 0, waits |-> << >>,
     gcv_calls |-> 0, gcv_failures |-> 0, docai_calls |-> 0, docai_failures |-> 0,
     docai_attempt |-> 0, docai |-> "",
     cache_errors |-> 0, error |-> "", result |-> NoResult, after_store |-> FALSE]

\* update_processing_status that reports the batch index as the count
update_processing_status_by_batch(total_documents, processed_documents) ==
    [status |-> IF processed_documents < total_documents THEN "Processing" ELSE "Complete",
     progress |-> Frac(processed_documents * 100, total_documents),
     processed |-> Min(batch_index, total_documents)]

\* ocr_engine.py:345-351
update_processing_status(total_documents, processed_documents) ==
    [status |-> IF processed_documents < total_documents THEN "Processing" ELSE "Complete",
     progress |-> Frac(processed_documents * 100, total_documents),
     processed |-> processed_documents]
NoEngineStatus == [status |-> "<none>", progress |-> Whole(0), processed |-> 0]

\* ----------------------------------------------- DataExtractor: data model
MaxResults == 2      \* OCR results handed to one extract_data call

\* ---- values.  None of an Optional[str] or Optional[date] is NoneStr
NoneStr == "<None>"
\* an entity type that is not a key of the entities dict
Absent == "<absent>"
AbsentSeq == <<"<absent>">>

\* Decimal: coef * 10^(-scale), or None
NoneDec == [none |-> TRUE, coef |-> 0, scale |-> 0]
Dec(coef, scale) == [none |-> FALSE, coef |-> coef, scale |-> scale]
\* Optional[int]
NoneInt == [none |-> TRUE, v |-> 0]
SomeInt(v) == [none |-> FALSE, v |-> v]

RECURSIVE Pow10(_)
Pow10(n) == IF n <= 0 THEN 1 ELSE 10 * Pow10(n - 1)
Abs(x) == IF x < 0 THEN -x ELSE x

\* coef of d at scale s (s >= d.scale)
AtScale(d, s) == d.coef * Pow10(s - d.scale)
DecAdd(a, b) == LET s == Max(a.scale, b.scale) IN Dec(AtScale(a, s) + AtScale(b, s), s)
\* int * Decimal
DecTimes(q, d) == Dec(q * d.coef, d.scale)
\* abs(v - expected) > Decimal('0.01')   (models.py:28, 47)
OffByMoreThanCent(v, expected) ==
    LET s == Max(2, Max(v.scale, expected.scale))
    IN Abs(AtScale(v, s) - AtScale(expected, s)) > Pow10(s - 2)

\* ---- strings that the code parses are sequences of characters
DigitChars == {"0", "1", "2", "3", "4", "5", "6", "7", "8", "9"}
DigitVal(c) == CASE c = "0" -> 0 [] c = "1" -> 1 [] c = "2" -> 2 [] c = "3" -> 3
                 [] c = "4" -> 4 [] c = "5" -> 5 [] c = "6" -> 6 [] c = "7" -> 7
                 [] c = "8" -> 8 [] c = "9" -> 9
Whitespace == {" ", "\t", "\n"}
LetterChars == {"A", "B", "C", "I", "N", "V", "W", "a", "b", "c"}

\* not s.strip()
IsBlank(s) == \A k \in 1..Len(s) : s[k] \in Whitespace

IsDigit(c) == c \in DigitChars
IsAmountChar(c) == c \in DigitChars \cup {".", "-"}

\* the number of positions of s holding c
Count(s, c) == Cardinality({k \in 1..Len(s) : s[k] = c})

\* int("".join(digits)) of the digit characters of s, in order
RECURSIVE DigitsValue(_)
DigitsValue(s) ==
    IF s = << >> THEN 0
    ELSE LET front == SubSeq(s, 1, Len(s) - 1)
             c == s[Len(s)]
         IN IF IsDigit(c) THEN 10 * DigitsValue(front) + DigitVal(c) ELSE DigitsValue(front)

\* Decimal(cleaned): an optional sign, digits with at most one point and at
\* least one digit; anything else raises InvalidOperation (none |-> TRUE here)
SignedDecimal(sign, body) ==
    IF /\ Count(body, "-") = 0
       /\ Count(body, ".") <= 1
       /\ \E k \in 1..Len(body) : IsDigit(body[k])
      THEN Dec(sign * DigitsValue(body),
               IF Count(body, ".") = 0 THEN 0
               ELSE Len(body) - (CHOOSE k \in 1..Len(body) : body[k] = "."))
      ELSE NoneDec
PyDecimal(cleaned) ==
    IF cleaned # << >> /\ cleaned[1] = "-" THEN SignedDecimal(-1, Tail(cleaned))
    ELSE SignedDecimal(1, cleaned)

\* Price.fromstring(s).amount of price_parser: the first number written in s,
\* None when s holds no digit
Least(S) == CHOOSE k \in S : \A j \in S : k <= j
\* the number of s that starts at position first
NumberFrom(s, first) ==
    PyDecimal(SubSeq(s, first,
        Least({k \in first..(Len(s) + 1) :
                  \/ k = Len(s) + 1
                  \/ ~(IsDigit(s[k]) \/ s[k] = ".")
                  \/ s[k] = "." /\ Count(SubSeq(s, first, k), ".") > 1}) - 1))
PriceAmount(s) ==
    IF ~\E k \in 1..Len(s) : IsDigit(s[k]) THEN NoneDec
    ELSE NumberFrom(s, Least({k \in 1..Len(s) : IsDigit(s[k])}))

\* data_extractor.py:388-401
\* lines 395-401: the except branch, and `if price.amount` (None and 0 are false)
OrPrice(d, amount) ==
    IF ~d.none THEN d
    ELSE IF ~amount.none /\ amount.coef # 0 THEN amount ELSE NoneDec
parse_decimal(amount_string) ==
    IF amount_string = << >> \/ IsBlank(amount_string) THEN NoneDec
    ELSE OrPrice(PyDecimal(SelectSeq(amount_string, IsAmountChar)), PriceAmount(amount_string))

\* int(s) of Python for a cell of a table: surrounding blanks dropped, an
\* optional sign, digits only; ValueError otherwise (none |-> TRUE here)
SignedInt(sign, body) ==
    IF body # << >> /\ \A k \in 1..Len(body) : IsDigit(body[k])
      THEN SomeInt(sign * DigitsValue(body))
      ELSE NoneInt
Stripped(s) == SelectSeq(s, LAMBDA c : c \notin Whitespace)
PyInt(s) ==
    IF Stripped(s) # << >> /\ Stripped(s)[1] = "-" THEN SignedInt(-1, Tail(Stripped(s)))
    ELSE SignedInt(1, Stripped(s))

\* ---- models.py: construction with validation.  A constructor gives
\* [ok |-> TRUE, value |-> the object] or [ok |-> FALSE, ...] for ValidationError
\* models.py:7-12
Address(street, city, state, country, postal_code) ==
    [ok |-> street # "" /\ city # "" /\ country # "" /\ postal_code # "",
     street |-> street, city |-> city, state |-> state, country |-> country,
     postal_code |-> postal_code]

\* models.py:14-16; address is an Address that was constructed
Vendor(name, address) ==
    [ok |-> name # "" /\ address.ok, name |-> name, address |-> address]

\* models.py:18-30: description min_length 1, quantity > 0, unit_price >= 0,
\* total >= 0 and, when quantity and unit_price passed, within 0.01 of their product
InvoiceItem(description, quantity, unit_price, total) ==
    LET description_ok == description # << >>
        quantity_ok == ~quantity.none /\ quantity.v > 0
        unit_price_ok == ~unit_price.none /\ unit_price.coef >= 0
        total_ok == /\ ~total.none /\ total.coef >= 0
                    /\ (quantity_ok /\ unit_price_ok)
                          => ~OffByMoreThanCent(total, DecTimes(quantity.v, unit_price))
    IN [ok |-> description_ok /\ quantity_ok /\ unit_price_ok /\ total_ok,
        description |-> description, quantity |-> quantity, unit_price |-> unit_price,
        total |-> total]

\* the dates of the model and date.today(): DateFuture is after today
DatePast == "2024-01-15"
DateFuture == "2999-01-01"

\* ^[A-Za-z0-9-]{5,}$   (models.py:34)
InvoiceNumberOk(s) ==
    /\ Len(s) >= 5
    /\ \A k \in 1..Len(s) : s[k] \in DigitChars \cup LetterChars \cup {"-"}

\* the keyword arguments of Invoice(...); a field not passed or passed as
\* None is NoneStr / NoneDec / AbsentSeq, items << >>, pages 0
InvoiceFields(filename, invoice_number, vendor, invoice_date, grand_total, taxes, final_total, items, pages) ==
    [filename |-> filename, invoice_number |-> invoice_number, vendor |-> vendor,
     invoice_date |-> invoice_date, grand_total |-> grand_total, taxes |-> taxes,
     final_total |-> final_total, items |-> items, pages |-> pages]

NoVendor == [ok |-> FALSE, name |-> NoneStr,
             address |-> [ok |-> FALSE, street |-> "", city |-> "", state |-> "",
                          country |-> "", postal_code |-> ""]]

\* Invoice(filename=...) of data_extractor.py:36, 175: only the filename passed
BlankFields(filename) ==
    InvoiceFields(filename, AbsentSeq, NoVendor, NoneStr, NoneDec, NoneDec, NoneDec, << >>, 0)

\* models.py:43-49, run when final_total passed its own check, over the
\* fields validated before it
validate_final_total(f) ==
    LET grand_total_ok == ~f.grand_total.none /\ f.grand_total.coef >= 0
        taxes_ok == ~f.taxes.none /\ f.taxes.coef >= 0
    IN (grand_total_ok /\ taxes_ok)
          => ~OffByMoreThanCent(f.final_total, DecAdd(f.grand_total, f.taxes))

\* models.py:32-55: does Invoice(**f) construct?
InvoiceOk(f) ==
    /\ f.filename # ""
    /\ f.invoice_number # AbsentSeq /\ InvoiceNumberOk(f.invoice_number)
    /\ f.vendor.ok
    /\ f.invoice_date # NoneStr /\ f.invoice_date # DateFuture
    /\ ~f.grand_total.none /\ f.grand_total.coef >= 0
    /\ ~f.taxes.none /\ f.taxes.coef >= 0
    /\ ~f.final_total.none /\ f.final_total.coef >= 0 /\ validate_final_total(f)
    /\ Len(f.items) >= 1
    /\ f.pages >= 1

\* ---- the inputs of the extractor
\* amounts, invoice numbers and table cells as they are written
A0 == <<"0", ".", "0", "0">>
A8 == <<"8", ".", "0", "0">>
A50 == <<"5", "0", ".", "0", "0">>
A90 == <<"9", "0", ".", "0", "0">>
A100 == <<"1", "0", "0", ".", "0", "0">>
A108 == <<"1", "0", "8", ".", "0", "0">>
INV1 == <<"I", "N", "V", "-", "1">>
Widget == <<"W">>
Two == <<"2">>

\* a table row whose total is quantity * unit price, and one whose total is not
GoodRow == <<Widget, Two, A50, A100>>
BadTotalRow == <<Widget, Two, A50, A90>>
HeaderRow == <<<<"a">>, <<"b">>, <<"c">>, <<"b">>>>
\* a second good row, a row whose quantity is no integer, a row of two cells
SecondRow == <<<<"B">>, <<"1">>, A8, A8>>
UnparsableRow == <<Widget, <<"x">>, A50, A100>>
ShortRow == <<Widget, Two>>

\* the entities dict of a docai_result: entity type -> mention text, Absent
\* (AbsentSeq) for a type that is no key of the dict
Entities(name, street, city, state, country, zip, date, total, tax, id) ==
    [supplier_name |-> name, supplier_address |-> street, supplier_city |-> city,
     supplier_state |-> state, supplier_country |-> country, supplier_zip |-> zip,
     invoice_date |-> date, total_amount |-> total, total_tax_amount |-> tax,
     invoice_id |-> id]
NoEntities ==
    Entities(Absent, Absent, Absent, Absent, Absent, Absent, Absent,
             AbsentSeq, AbsentSeq, AbsentSeq)

\* the supplier entities: none, the name alone, the name and a full address
SupplierSamples ==
    {<<Absent, Absent, Absent, Absent, Absent, Absent>>,
     <<"ACME", Absent, Absent, Absent, Absent, Absent>>,
     <<"ACME", "1 Main St", "Springfield", "IL", "US", "62704">>}

\* no docai_result (None)
NoDocai == [present |-> FALSE, has_entities |-> FALSE, entities |-> NoEntities, tables |-> << >>]
\* a docai_result dict without the key 'entities'
DocaiNoKey == [present |-> TRUE, has_entities |-> FALSE, entities |-> NoEntities, tables |-> << >>]

DocaiSamples ==
    {NoDocai, DocaiNoKey} \cup
    {[present |-> TRUE, has_entities |-> TRUE,
      entities |-> Entities(sup[1], sup[2], sup[3], sup[4], sup[5], sup[6], d, total, tax, id),
      tables |-> tables] :
        sup \in SupplierSamples, d \in {Absent, DatePast, DateFuture},
        total \in {AbsentSeq, A108}, tax \in {AbsentSeq, A0, A8}, id \in {AbsentSeq, INV1},
        tables \in {<< >>, <<<<GoodRow>>>>, <<<<BadTotalRow>>>>}}

\* a labelled amount of the recognised text, in text order
Token(label, amount) == [label |-> label, amount |-> amount]

\* a string of the text that a search stage of _extract_date hands to
\* dateparser.parse: the stage that finds it ("labeled", "pattern", "word")
\* and what the parser returns for it (NoneStr: None)
DateString(stage, parsed) == [stage |-> stage, parsed |-> parsed]

\* an OCR result by what the extractor reads from it: the invoice number the
\* patterns of _extract_invoice_number find (AbsentSeq: no match), the lines
\* of the text, the date strings of the text in text order, the labelled
\* amounts of the text, the tables of the layout analysis
OcrSamples ==
    [filename : {"f1"},
     number : {AbsentSeq, INV1},
     lines : {<<"">>, <<"ACME", "1 Main St", "Springfield, IL 62704">>},
     dates : {<< >>,
              <<DateString("labeled", NoneStr), DateString("word", NoneStr)>>,
              <<DateString("labeled", DatePast)>>,
              <<DateString("pattern", NoneStr), DateString("word", DatePast)>>},
     amounts : {<< >>,
                <<Token("Total", A108)>>,
                <<Token("Subtotal", A100)>>,
                <<Token("Tax", A8)>>,
                <<Token("Subtotal", A100), Token("Tax", A8), Token("Total", A108)>>},
     tables : {<< >>, <<<<HeaderRow, GoodRow>>>>, <<<<HeaderRow, BadTotalRow>>>>,
               <<<<HeaderRow, GoodRow>>, <<HeaderRow, SecondRow>>>>,
               <<<<HeaderRow, GoodRow, UnparsableRow, ShortRow, SecondRow>>>>},
     num_pages : {1}]
\* no extractor call made yet
NotCalled == [call |-> "none", kind |-> "none", invoices |-> << >>, error |-> ""]

TaskInit ==
    /\ processing_tasks = << >>
    /\ direct_results = << >>
    /\ pc = [t \in TaskIds |-> "none"]
    /\ file_paths = [t \in TaskIds |-> 0]
    /\ path_idx = [t \in TaskIds |-> 0]
    /\ processed_files = [t \in TaskIds |-> 0]
    /\ loop_i = [t \in TaskIds |-> 0]
    /\ temp_dir = [t \in TaskIds |-> NoDir]
    /\ http_reply = Reply(0, "none")
    /\ cancel_issued = {}
    /\ hist = [t \in TaskIds |-> << >>]
    /\ celery_backend = << >>
    /\ task_outcome = [t \in TaskIds |-> NoOutcome]
    /\ limit_fired = {}

\* ocr_engine.py:26-35: the engine as constructed, no call made
EngineIdle ==
    /\ settings = [BATCH_SIZE |-> 1, MAX_WORKERS |-> MAX_WORKERS_default]
    /\ redis = "None"
    /\ redis_store = << >>
    /\ documents = << >>
    /\ pd_pc = "idle"
    /\ batch_index = 0
    /\ results = << >>
    /\ pd_status = NoEngineStatus
    /\ doc = << >>
    /\ calls = 0
    /\ reached_store = {}

\* data_extractor.py:20-22: the extractor as constructed, no call made
ExtractIdle ==
    /\ ocr_results = << >>
    /\ docai_result = NoDocai
    /\ extracted = NotCalled

\* no exporter call, no _parse_decimal call and no cleanup step made
NoAmount == <<"<no call>">>
NotExported == [kind |-> "none", rows |-> << >>, item_rows |-> << >>, error |-> ""]
\* no document processed yet
NoRequest == [sent |-> FALSE, gcv_images |-> << >>, content |-> ""]
AuxIdle ==
    /\ parse_input = NoAmount
    /\ invoices = << >>
    /\ exported = NotExported
    /\ cleanup_log = << >>
    /\ docai_request = NoRequest

Init == TaskInit /\ EngineIdle /\ ExtractIdle /\ AuxIdle

\* ------------------------------------------------------------ upload_files
\* main.py:252-256: fresh id, registered as Queued, temp dir created; the
\* handler then awaits file.read()
UploadBegin(t) ==
    /\ LoopFree
    /\ pc[t] = "none"
    /\ t \notin DOMAIN processing_tasks
    /\ SetStatus(t, ProcessingStatus("Queued", 0, "Task queued"))
    /\ temp_dir' = [temp_dir EXCEPT ![t] = {}]
    /\ pc' = [pc EXCEPT ![t] = "uploading"]
    /\ UNCHANGED <<direct_results, file_paths, path_idx, processed_files, loop_i,
                   http_reply, cancel_issued>>
    /\ UNCHANGED celery_vars
    /\ UNCHANGED other_vars

\* main.py:259-287: all n files saved, worker scheduled, status overwritten
UploadFinish(t, n) ==
    /\ LoopFree
    /\ pc[t] = "uploading"
    /\ file_paths' = [file_paths EXCEPT ![t] = n]
    /\ temp_dir' = [temp_dir EXCEPT ![t] = {"upload"}]
    /\ SetStatus(t, ProcessingStatus("Processing", 0, "Processing started"))
    /\ pc' = [pc EXCEPT ![t] = "scheduled"]
    /\ http_reply' = Reply(200, "task_id")
    /\ UNCHANGED <<direct_results, path_idx, processed_files, loop_i, cancel_issued>>
    /\ UNCHANGED celery_vars
    /\ UNCHANGED other_vars

\* main.py:262-264, 273-275, 288-291: unsupported type or IOError; the temp
\* dir is removed and 500 is answered; processing_tasks is not touched
UploadFail(t) ==
    /\ LoopFree
    /\ pc[t] = "uploading"
    /\ temp_dir' = [temp_dir EXCEPT ![t] = NoDir]
    /\ pc' = [pc EXCEPT ![t] = "upload_failed"]
    /\ http_reply' = Reply(500, "An unexpected error occurred during file upload")
    /\ UNCHANGED <<processing_tasks, hist, direct_results, file_paths, path_idx,
                   processed_files, loop_i, cancel_issued>>
    /\ UNCHANGED celery_vars
    /\ UNCHANGED other_vars

\* ------------------------------------- process_file_directly / process_multiple_files_directly
\* an except block that publishes the failure payload but not the Failed status
Fail_result_only(t, e) ==
    /\ direct_results' = Put(direct_results, t, FailedResult(e))
    /\ pc' = [pc EXCEPT ![t] = "failed"]
    /\ UNCHANGED <<processing_tasks, hist>>

\* main.py:161-165 / 243-247: the worker's except block, then re-raise
Fail(t, e) ==
    /\ SetStatus(t, ProcessingStatus("Failed", 100, "Error: " \o e))
    /\ direct_results' = Put(direct_results, t, FailedResult(e))
    /\ pc' = [pc EXCEPT ![t] = "failed"]

\* main.py:93 / 171: the background task starts and awaits process_upload
WorkerStart(t) ==
    /\ LoopFree
    /\ pc[t] = "scheduled"
    /\ SetStatus(t, ProcessingStatus("Processing", 0, "Starting processing"))
    /\ path_idx' = [path_idx EXCEPT ![t] = 0]
    /\ processed_files' = [processed_files EXCEPT ![t] = 0]
    /\ pc' = [pc EXCEPT ![t] = "w_pre"]
    /\ UNCHANGED <<direct_results, file_paths, loop_i, temp_dir, http_reply, cancel_issued>>
    /\ UNCHANGED celery_vars
    /\ UNCHANGED other_vars

\* AfterPreprocess that, with nothing to extract, resumes after the 60 milestone
AfterPreprocess_skip60(total) == IF total = 0 THEN "s_validate" ELSE "w_ocr"

\* where the worker goes after preprocessing: into the extraction loop, or,
\* with nothing to extract, straight on to main.py:111
AfterPreprocess(total) == IF total = 0 THEN "s_60" ELSE "w_ocr"

\* main.py:95-103 (single) and 175-185 (multi): process_upload returns k entries
PreprocessReturn(t, k) ==
    /\ LoopFree
    /\ pc[t] = "w_pre"
    /\ processed_files[t] + k <= MaxProcessed
    /\ processed_files' = [processed_files EXCEPT ![t] = @ + k]
    /\ loop_i' = [loop_i EXCEPT ![t] = 0]
    /\ IF ~IsMulti(t)
         THEN /\ SetStatus(t,
                     ProcessingStatus("Processing", 20, "File processed"))
              /\ path_idx' = path_idx
              /\ pc' = [pc EXCEPT ![t] = AfterPreprocess(processed_files'[t])]
         ELSE /\ SetStatus(t,
                     ProcessingStatus("Processing", PreProgress(path_idx[t], file_paths[t]),
                        "Processed " \o ToString(path_idx[t] + 1) \o " of "
                           \o ToString(file_paths[t]) \o " files"))
              /\ path_idx' = [path_idx EXCEPT ![t] = @ + 1]
              /\ pc' = [pc EXCEPT ![t] = IF path_idx'[t] < file_paths[t]
                                            THEN "w_pre"
                                            ELSE AfterPreprocess(processed_files'[t])]
    /\ UNCHANGED <<direct_results, file_paths, temp_dir, http_reply, cancel_issued>>
    /\ UNCHANGED celery_vars
    /\ UNCHANGED other_vars

\* main.py:103 / 185: ocr_engine.process_documents([file_batch]) returns
OcrReturn(t) ==
    /\ LoopFree
    /\ pc[t] = "w_ocr"
    /\ pc' = [pc EXCEPT ![t] = "w_ext"]
    /\ UNCHANGED <<processing_tasks, hist, direct_results, file_paths, path_idx, processed_files,
                   loop_i, temp_dir, http_reply, cancel_issued>>
    /\ UNCHANGED celery_vars
    /\ UNCHANGED other_vars

\* main.py:104-109 / 186-191: the gather of extract_data returns, per-file progress
ExtractReturn(t) ==
    /\ LoopFree
    /\ pc[t] = "w_ext"
    /\ SetStatus(t,
           ProcessingStatus("Processing", LoopProgress(loop_i[t], processed_files[t]),
              "Processed " \o ToString(loop_i[t] + 1) \o "/"
                 \o ToString(processed_files[t]) \o FilesWord(t)))
    /\ loop_i' = [loop_i EXCEPT ![t] = @ + 1]
    /\ pc' = [pc EXCEPT ![t] = IF loop_i'[t] < processed_files[t] THEN "w_ocr" ELSE "s_60"]
    /\ UNCHANGED <<direct_results, file_paths, path_idx, processed_files, temp_dir,
                   http_reply, cancel_issued>>
    /\ UNCHANGED celery_vars
    /\ UNCHANGED other_vars

\* an awaited collaborator call (process_upload, process_documents, the
\* gather of extract_data) raises instead of returning
AwaitRaise(t, e) ==
    /\ LoopFree
    /\ pc[t] \in {"w_pre", "w_ocr", "w_ext"}
    /\ Fail(t, e)
    /\ UNCHANGED <<file_paths, path_idx, processed_files, loop_i, temp_dir,
                   http_reply, cancel_issued>>
    /\ UNCHANGED celery_vars
    /\ UNCHANGED other_vars

\* main.py:112 / 194
Milestone60(t) ==
    /\ pc[t] = "s_60"
    /\ SetStatus(t,
           ProcessingStatus("Processing", 60, "OCR and Data extraction completed"))
    /\ pc' = [pc EXCEPT ![t] = "s_validate"]
    /\ UNCHANGED <<direct_results, file_paths, path_idx, processed_files, loop_i,
                   temp_dir, http_reply, cancel_issued>>
    /\ UNCHANGED celery_vars
    /\ UNCHANGED other_vars

\* main.py:114-119 / 196-201
Validate(t) ==
    /\ pc[t] = "s_validate"
    /\ SetStatus(t,
           ProcessingStatus("Processing", 80, "Validation completed"))
    /\ pc' = [pc EXCEPT ![t] = "s_export"]
    /\ UNCHANGED <<direct_results, file_paths, path_idx, processed_files, loop_i,
                   temp_dir, http_reply, cancel_issued>>
    /\ UNCHANGED celery_vars
    /\ UNCHANGED other_vars

\* main.py:121-134 / 203-216: anomaly flags, export rows, both export streams
Export(t) ==
    /\ pc[t] = "s_export"
    /\ pc' = [pc EXCEPT ![t] = "s_write_csv"]
    /\ UNCHANGED <<processing_tasks, hist, direct_results, file_paths, path_idx, processed_files,
                   loop_i, temp_dir, http_reply, cancel_issued>>
    /\ UNCHANGED celery_vars
    /\ UNCHANGED other_vars

\* main.py:136-137 / 218-219
WriteCsv(t) ==
    /\ pc[t] = "s_write_csv"
    /\ HasDir(t)
    /\ temp_dir' = [temp_dir EXCEPT ![t] = @ \cup {csv_path(t)}]
    /\ pc' = [pc EXCEPT ![t] = "s_write_excel"]
    /\ UNCHANGED <<processing_tasks, hist, direct_results, file_paths, path_idx, processed_files,
                   loop_i, http_reply, cancel_issued>>
    /\ UNCHANGED celery_vars
    /\ UNCHANGED other_vars

\* main.py:138-139 / 220-221
WriteExcel(t) ==
    /\ pc[t] = "s_write_excel"
    /\ HasDir(t)
    /\ temp_dir' = [temp_dir EXCEPT ![t] = @ \cup {excel_path(t)}]
    /\ pc' = [pc EXCEPT ![t] = "s_publish"]
    /\ UNCHANGED <<processing_tasks, hist, direct_results, file_paths, path_idx, processed_files,
                   loop_i, http_reply, cancel_issued>>
    /\ UNCHANGED celery_vars
    /\ UNCHANGED other_vars

\* a worker that stores the result payload and leaves the status as it is
Publish_result_only(t) ==
    /\ pc[t] = "s_publish"
    /\ direct_results' = Put(direct_results, t, SuccessResult(t))
    /\ pc' = [pc EXCEPT ![t] = "done"]
    /\ UNCHANGED <<processing_tasks, hist>>
    /\ UNCHANGED <<file_paths, path_idx, processed_files, loop_i, temp_dir,
                   http_reply, cancel_issued>>
    /\ UNCHANGED celery_vars
    /\ UNCHANGED other_vars

\* main.py:141-159 / 223-241
Publish(t) ==
    /\ pc[t] = "s_publish"
    /\ SetStatus(t,
           ProcessingStatus("Completed", 100, "Processing completed"))
    /\ direct_results' = Put(direct_results, t, SuccessResult(t))
    /\ pc' = [pc EXCEPT ![t] = "done"]
    /\ UNCHANGED <<file_paths, path_idx, processed_files, loop_i, temp_dir,
                   http_reply, cancel_issued>>
    /\ UNCHANGED celery_vars
    /\ UNCHANGED other_vars

\* validation, anomaly flagging, export or a file write raises
SyncRaise(t, e) ==
    /\ pc[t] \in {"s_validate", "s_export", "s_write_csv", "s_write_excel"}
    /\ Fail(t, e)
    /\ UNCHANGED <<file_paths, path_idx, processed_files, loop_i, temp_dir,
                   http_reply, cancel_issued>>
    /\ UNCHANGED celery_vars
    /\ UNCHANGED other_vars

\* ------------------------------------------------------------ HTTP handlers
\* A request names a task id.  The uuid4 of a task is handed out only by the
\* reply of upload_files (main.py:287), so a client can name an id that was
\* never registered or one whose upload has replied, not one in between.
Nameable(t) == pc[t] \notin {"uploading", "upload_failed"}

CancelledReply == "Task cancelled successfully"

\* the status cancel_task stores (main.py:354)
CancelledStatus == ProcessingStatus("Cancelled", 0, "Task cancelled by user")

\* cancel_task that also cancels a task already Completed or Failed
cancel_task_any_state(t) ==
    /\ LoopFree
    /\ Nameable(t)
    /\ IF t \notin DOMAIN processing_tasks
         THEN /\ http_reply' = Reply(404, "Task not found")
              /\ UNCHANGED <<processing_tasks, hist, cancel_issued>>
         ELSE IF processing_tasks[t].status \in {"Queued", "Processing", "Completed", "Failed"}
         THEN /\ SetStatus(t, CancelledStatus)
              /\ http_reply' = Reply(200, CancelledReply)
              /\ cancel_issued' = cancel_issued \cup {t}
         ELSE /\ http_reply' = Reply(200, "Unable to cancel task, unknown state")
              /\ UNCHANGED <<processing_tasks, hist, cancel_issued>>
    /\ UNCHANGED <<direct_results, pc, file_paths, path_idx, processed_files, loop_i, temp_dir>>
    /\ UNCHANGED celery_vars
    /\ UNCHANGED other_vars

\* main.py:347-359
cancel_task(t) ==
    /\ LoopFree
    /\ Nameable(t)
    /\ IF t \notin DOMAIN processing_tasks
         THEN /\ http_reply' = Reply(404, "Task not found")
              /\ UNCHANGED <<processing_tasks, hist, cancel_issued>>
         ELSE IF processing_tasks[t].status \in {"Queued", "Processing"}
         THEN /\ SetStatus(t, CancelledStatus)
              /\ http_reply' = Reply(200, CancelledReply)
              /\ cancel_issued' = cancel_issued \cup {t}
         ELSE IF processing_tasks[t].status \in {"Completed", "Failed"}
         THEN /\ http_reply' = Reply(200, "Task already completed or failed, cannot cancel")
              /\ UNCHANGED <<processing_tasks, hist, cancel_issued>>
         ELSE /\ http_reply' = Reply(200, "Unable to cancel task, unknown state")
              /\ UNCHANGED <<processing_tasks, hist, cancel_issued>>
    /\ UNCHANGED <<direct_results, pc, file_paths, path_idx, processed_files, loop_i, temp_dir>>
    /\ UNCHANGED celery_vars
    /\ UNCHANGED other_vars

\* main.py:293-299
get_processing_status(t) ==
    /\ LoopFree
    /\ Nameable(t)
    /\ http_reply' = IF t \notin DOMAIN processing_tasks
                       THEN Reply(404, "Task not found")
                       ELSE StatusReply(processing_tasks[t])
    /\ UNCHANGED <<processing_tasks, hist, direct_results, pc, file_paths, path_idx,
                   processed_files, loop_i, temp_dir, cancel_issued>>
    /\ UNCHANGED celery_vars
    /\ UNCHANGED other_vars

\* main.py:301-323; fmt is "csv" or "excel"
download_results(t, fmt) ==
    /\ LoopFree
    /\ Nameable(t)
    /\ LET name == IF fmt = "csv" THEN csv_path(t) ELSE excel_path(t)
       IN http_reply' =
            IF t \notin DOMAIN processing_tasks THEN Reply(404, "Task not found")
            ELSE IF t \notin DOMAIN direct_results THEN Reply(400, "Processing not completed")
            ELSE IF ~(direct_results[t].temp_dir /\ name \in temp_dir[t])
                 THEN Reply(404, "Result file not found")
            ELSE Reply(200, name)
    /\ UNCHANGED <<processing_tasks, hist, direct_results, pc, file_paths, path_idx,
                   processed_files, loop_i, temp_dir, cancel_issued>>
    /\ UNCHANGED celery_vars
    /\ UNCHANGED other_vars

\* ---------------------------------- process_file_task / process_multiple_files_task
TimeLimitMessage == "Task exceeded time limit"

\* the meta dicts handed to update_state; status "" when the key is absent
Meta(p, m) == [progress |-> p, message |-> m, status |-> "", paths |-> {}]
\* celery_app.py:112-120 / 201-209
CompletedMeta(t) == [progress |-> Whole(100), message |-> "Processing completed",
                     status |-> "Completed", paths |-> {csv_path(t), excel_path(t)}]
\* celery_app.py:126, 131 / 215, 220
FailedMeta(m) == [progress |-> Whole(100), message |-> m, status |-> "Failed", paths |-> {}]

\* self.update_state(state=..., meta=...)
update_state(t, state, meta) ==
    /\ celery_backend' = Put(celery_backend, t, [state |-> state, meta |-> meta])
    /\ hist' = [hist EXCEPT ![t] = Append(@, [status |-> state, progress |-> meta.progress,
                                              message |-> meta.message])]

\* positions of the task function inside its try block
TryPositions == {"c_pre", "c_ocr", "c_ext", "c_60", "c_validate", "c_export",
                 "c_write_csv", "c_write_excel", "c_success"}
\* positions at which a call made by the task can raise
RaisePositions == {"c_pre", "c_ocr", "c_ext", "c_validate", "c_export",
                   "c_write_csv", "c_write_excel"}
\* positions at which the code running is a callee that catches Exception itself:
\* ocr_engine.py:68 (retry), 314-316 and data_extractor.py:34-36, 173-175
SwallowPositions == {"c_ocr", "c_ext"}

AfterPreprocessTask(total) == IF total = 0 THEN "c_60" ELSE "c_ocr"

\* the task-queue host invokes the task function with n file paths and a
\* temp dir made by the caller (exists), or already gone; celery_app.py:60-62 / 146-148
TaskInvoke(t, n, exists) ==
    /\ pc[t] = "none"
    /\ t \notin DOMAIN processing_tasks
    /\ file_paths' = [file_paths EXCEPT ![t] = n]
    /\ temp_dir' = [temp_dir EXCEPT ![t] = IF exists THEN {"upload"} ELSE NoDir]
    /\ update_state(t, "STARTED", Meta(Whole(0), "Starting processing"))
    /\ pc' = [pc EXCEPT ![t] = "c_pre"]
    /\ UNCHANGED <<path_idx, processed_files, loop_i, task_outcome, limit_fired>>
    /\ UNCHANGED direct_vars
    /\ UNCHANGED other_vars

\* celery_app.py:64-66 (single) and 151-155 (multi): process_upload returns k entries
TaskPreprocess(t, k) ==
    /\ pc[t] = "c_pre"
    /\ processed_files[t] + k <= MaxProcessed
    /\ processed_files' = [processed_files EXCEPT ![t] = @ + k]
    /\ IF ~IsMulti(t)
         THEN /\ update_state(t, "PROCESSING", Meta(Whole(20), "File processed"))
              /\ path_idx' = path_idx
              /\ pc' = [pc EXCEPT ![t] = AfterPreprocessTask(processed_files'[t])]
         ELSE /\ update_state(t, "PROCESSING",
                     Meta(Frac(20 * (path_idx[t] + 1), file_paths[t]),
                          "Processed " \o ToString(path_idx[t] + 1) \o " of "
                             \o ToString(file_paths[t]) \o " files"))
              /\ path_idx' = [path_idx EXCEPT ![t] = @ + 1]
              /\ pc' = [pc EXCEPT ![t] = IF path_idx'[t] < file_paths[t]
                                            THEN "c_pre"
                                            ELSE AfterPreprocessTask(processed_files'[t])]
    /\ UNCHANGED <<file_paths, loop_i, temp_dir, task_outcome, limit_fired>>
    /\ UNCHANGED direct_vars
    /\ UNCHANGED other_vars

\* celery_app.py:74 / 163: asyncio.run(process_documents([file_batch])) returns
TaskOcr(t) ==
    /\ pc[t] = "c_ocr"
    /\ pc' = [pc EXCEPT ![t] = "c_ext"]
    /\ UNCHANGED <<file_paths, path_idx, processed_files, loop_i, temp_dir, hist,
                   celery_backend, task_outcome, limit_fired>>
    /\ UNCHANGED direct_vars
    /\ UNCHANGED other_vars

\* celery_app.py:75-80 / 164-169: extraction of the batch returns, progress 20 + i/total*40
TaskExtract(t) ==
    /\ pc[t] = "c_ext"
    /\ update_state(t, "PROCESSING",
           Meta(Frac(20 * processed_files[t] + 40 * loop_i[t], processed_files[t]),
                "Processed " \o ToString(loop_i[t] + 1) \o "/"
                   \o ToString(processed_files[t]) \o FilesWord(t)))
    /\ loop_i' = [loop_i EXCEPT ![t] = @ + 1]
    /\ pc' = [pc EXCEPT ![t] = IF loop_i'[t] < processed_files[t] THEN "c_ocr" ELSE "c_60"]
    /\ UNCHANGED <<file_paths, path_idx, processed_files, temp_dir, task_outcome, limit_fired>>
    /\ UNCHANGED direct_vars
    /\ UNCHANGED other_vars

\* celery_app.py:82-83 / 171-172
TaskMilestone60(t) ==
    /\ pc[t] = "c_60"
    /\ update_state(t, "PROCESSING", Meta(Whole(60), "OCR and Data extraction completed"))
    /\ pc' = [pc EXCEPT ![t] = "c_validate"]
    /\ UNCHANGED <<file_paths, path_idx, processed_files, loop_i, temp_dir,
                   task_outcome, limit_fired>>
    /\ UNCHANGED direct_vars
    /\ UNCHANGED other_vars

\* celery_app.py:85-89 / 174-178
TaskValidate(t) ==
    /\ pc[t] = "c_validate"
    /\ update_state(t, "PROCESSING", Meta(Whole(80), "Validation completed"))
    /\ pc' = [pc EXCEPT ![t] = "c_export"]
    /\ UNCHANGED <<file_paths, path_idx, processed_files, loop_i, temp_dir,
                   task_outcome, limit_fired>>
    /\ UNCHANGED direct_vars
    /\ UNCHANGED other_vars

\* celery_app.py:91-104 / 180-193
TaskExport(t) ==
    /\ pc[t] = "c_export"
    /\ pc' = [pc EXCEPT ![t] = "c_write_csv"]
    /\ UNCHANGED <<file_paths, path_idx, processed_files, loop_i, temp_dir, hist,
                   celery_backend, task_outcome, limit_fired>>
    /\ UNCHANGED direct_vars
    /\ UNCHANGED other_vars

\* celery_app.py:106-109 / 195-198: one of the two output files is written
TaskWrite(t) ==
    /\ pc[t] \in {"c_write_csv", "c_write_excel"}
    /\ HasDir(t)
    /\ temp_dir' = [temp_dir EXCEPT ![t] =
                       @ \cup {IF pc[t] = "c_write_csv" THEN csv_path(t) ELSE excel_path(t)}]
    /\ pc' = [pc EXCEPT ![t] = IF pc[t] = "c_write_csv" THEN "c_write_excel" ELSE "c_success"]
    /\ UNCHANGED <<file_paths, path_idx, processed_files, loop_i, hist,
                   celery_backend, task_outcome, limit_fired>>
    /\ UNCHANGED direct_vars
    /\ UNCHANGED other_vars

\* celery_app.py:111-122 / 200-211: SUCCESS is reported, `return result` is pending
TaskSuccess(t) ==
    /\ pc[t] = "c_success"
    /\ update_state(t, "SUCCESS", CompletedMeta(t))
    /\ task_outcome' = [task_outcome EXCEPT ![t] = [how |-> "returning", message |-> "Processing completed"]]
    /\ pc' = [pc EXCEPT ![t] = "c_finally"]
    /\ UNCHANGED <<file_paths, path_idx, processed_files, loop_i, temp_dir, limit_fired>>
    /\ UNCHANGED direct_vars
    /\ UNCHANGED other_vars

\* a handler that reports the failure payload under the state PROCESSING
TaskHandler_processing(t, message) ==
    /\ update_state(t, "PROCESSING", FailedMeta(message))
    /\ task_outcome' = [task_outcome EXCEPT ![t] = [how |-> "returning", message |-> message]]
    /\ pc' = [pc EXCEPT ![t] = "c_finally"]

\* the body of `except Exception as e` (celery_app.py:129-133 / 218-222) and of
\* `except SoftTimeLimitExceeded` (124-128 / 213-217), given the message
TaskHandler(t, message) ==
    /\ update_state(t, "FAILURE", FailedMeta(message))
    /\ task_outcome' = [task_outcome EXCEPT ![t] = [how |-> "returning", message |-> message]]
    /\ pc' = [pc EXCEPT ![t] = "c_finally"]

\* a call of the try block raises an exception with text e (writing an output
\* file into a directory that does not exist can only raise)
TaskRaise(t, e) ==
    /\ pc[t] \in RaisePositions
    /\ TaskHandler(t, "Error: " \o e)
    /\ UNCHANGED <<file_paths, path_idx, processed_files, loop_i, temp_dir, limit_fired>>
    /\ UNCHANGED direct_vars
    /\ UNCHANGED other_vars

\* the soft time limit fires while the task function's own frame, or the
\* event loop run by asyncio.run, is executing: SoftTimeLimitExceeded reaches
\* the task's try block
TaskSoftLimit(t) ==
    /\ pc[t] \in TryPositions
    /\ t \notin limit_fired
    /\ limit_fired' = limit_fired \cup {t}
    /\ TaskHandler(t, TimeLimitMessage)
    /\ UNCHANGED <<file_paths, path_idx, processed_files, loop_i, temp_dir>>
    /\ UNCHANGED direct_vars
    /\ UNCHANGED other_vars

\* the soft time limit fires while a coroutine of ocr_engine/data_extractor is
\* executing inside its own `try ... except Exception` (SoftTimeLimitExceeded
\* is an Exception): the callee logs it and carries on (retry, None or a blank
\* Invoice), the task's handlers never see it
TaskSoftLimitInCallee(t) ==
    /\ pc[t] \in SwallowPositions
    /\ t \notin limit_fired
    /\ limit_fired' = limit_fired \cup {t}
    /\ UNCHANGED <<pc, file_paths, path_idx, processed_files, loop_i, temp_dir, hist,
                   celery_backend, task_outcome>>
    /\ UNCHANGED direct_vars
    /\ UNCHANGED other_vars

\* celery_app.py:134-139 / 223-228, the finally block; rmtree_ok is whether
\* shutil.rmtree succeeds.  Nothing catches an rmtree error: it replaces the
\* pending return
TaskCleanup(t, rmtree_ok) ==
    /\ pc[t] = "c_finally"
    /\ IF HasDir(t)
         THEN IF rmtree_ok
                THEN /\ temp_dir' = [temp_dir EXCEPT ![t] = NoDir]
                     /\ task_outcome' = [task_outcome EXCEPT ![t].how = "returned"]
                ELSE /\ temp_dir' = temp_dir
                     /\ task_outcome' = [task_outcome EXCEPT ![t] =
                                            [how |-> "raised", message |-> "rmtree failed"]]
         ELSE /\ temp_dir' = temp_dir
              /\ task_outcome' = [task_outcome EXCEPT ![t].how = "returned"]
    /\ pc' = [pc EXCEPT ![t] = "c_done"]
    /\ UNCHANGED <<file_paths, path_idx, processed_files, loop_i, hist,
                   celery_backend, limit_fired>>
    /\ UNCHANGED direct_vars
    /\ UNCHANGED other_vars

CeleryNext ==
    \E t \in TaskIds :
        \/ \E n \in 1..MaxFiles, exists \in BOOLEAN : TaskInvoke(t, n, exists)
        \/ \E k \in 0..MaxProcessed : TaskPreprocess(t, k)
        \/ TaskOcr(t)
        \/ TaskExtract(t)
        \/ TaskMilestone60(t)
        \/ TaskValidate(t)
        \/ TaskExport(t)
        \/ TaskWrite(t)
        \/ TaskSuccess(t)
        \/ \E e \in ErrTexts : TaskRaise(t, e)
        \/ TaskSoftLimit(t)
        \/ TaskSoftLimitInCallee(t)
        \/ \E ok \in BOOLEAN : TaskCleanup(t, ok)

DirectNext ==
    \E t \in TaskIds :
        \/ UploadBegin(t)
        \/ \E n \in 1..MaxFiles : UploadFinish(t, n)
        \/ UploadFail(t)
        \/ WorkerStart(t)
        \/ \E k \in 0..MaxProcessed : PreprocessReturn(t, k)
        \/ OcrReturn(t)
        \/ ExtractReturn(t)
        \/ \E e \in ErrTexts : AwaitRaise(t, e)
        \/ Milestone60(t)
        \/ Validate(t)
        \/ Export(t)
        \/ WriteCsv(t)
        \/ WriteExcel(t)
        \/ Publish(t)
        \/ \E e \in ErrTexts : SyncRaise(t, e)
        \/ cancel_task(t)
        \/ get_processing_status(t)
        \/ \E fmt \in {"csv", "excel"} : download_results(t, fmt)

Next == DirectNext \/ CeleryNext

Spec == Init /\ [][Next]_vars

\* ================================================================ properties
Registered == DOMAIN processing_tasks
Status(t) == processing_tasks[t].status
Progress(t) == processing_tasks[t].progress

\* C1: for any interleaving of worker updates, failure handling and cancel
\* requests, the progress of a task that getStatus can observe never goes down
\* from one write to the next, and a Completed task has progress 100.
C1_ProgressNonDecreasing ==
    [][\A t \in Registered :
          /\ FracLeq(Progress(t), processing_tasks'[t].progress)
          /\ (processing_tasks'[t].status = "Completed"
                 => FracEq(processing_tasks'[t].progress, Whole(100)))]_vars

\* C2: once a task's state is Cancelled it stays Cancelled, whatever the
\* in-flight worker does afterwards.
C2_CancellationWins ==
    [][\A t \in Registered :
          Status(t) = "Cancelled" => processing_tasks'[t].status = "Cancelled"]_vars

\* the background worker of t has ended (returned or re-raised)
WorkerEnded(t) == pc[t] \in {"done", "failed"}

\* C3: a task for which cancel succeeded has, once its worker has finished,
\* no result payload (output paths, validation results, anomalies) published
\* in direct_results.
C3_CancelledResultDiscarded ==
    \A t \in cancel_issued :
        (WorkerEnded(t) /\ t \in DOMAIN direct_results)
           => /\ direct_results[t].paths = {}
              /\ ~direct_results[t].validation_results
              /\ ~direct_results[t].anomalies

\* C4: cancel on a Queued or Processing task stores Cancelled and answers
\* success; on a Completed, Failed or Cancelled task it leaves the task's
\* state, progress and message as they are and answers that it cannot cancel.
C4_CancelOnlyFromNonTerminal ==
    [][\A t \in Registered :
          cancel_task(t) =>
             IF Status(t) \in {"Queued", "Processing"}
               THEN /\ processing_tasks'[t] = CancelledStatus
                    /\ http_reply'.detail = CancelledReply
               ELSE /\ processing_tasks' = processing_tasks
                    /\ http_reply'.detail \in
                          {"Task already completed or failed, cannot cancel",
                           "Unable to cancel task, unknown state"}]_vars

\* cancel has been refused on a task that was already Cancelled and whose
\* worker, still in flight, had not overwritten that state
C4_Witness ==
    \E t \in Registered :
        /\ Status(t) = "Cancelled"
        /\ pc[t] \in {"w_pre", "w_ocr", "w_ext"}
        /\ http_reply.detail = "Unable to cancel task, unknown state"

\* ---- the milestones of the state machine, read off the statuses written
\* 1 Queued, 2 Started, 3 Processing at 20, 4 Processing at 60, 5 Processing
\* at 80, 6 Success at 100; 0 for every other write.  The in-process worker has
\* no state named Started: its start write is Processing at 0 with the start
\* message the queued worker attaches to STARTED.
Rank(e) ==
    CASE e.status = "Queued" -> 1
      [] e.status = "STARTED" -> 2
      [] e.status = "Processing" /\ e.message = "Starting processing" -> 2
      [] e.status \in {"Processing", "PROCESSING"} /\ FracEq(e.progress, Whole(20)) -> 3
      [] e.status \in {"Processing", "PROCESSING"} /\ FracEq(e.progress, Whole(60)) -> 4
      [] e.status \in {"Processing", "PROCESSING"} /\ FracEq(e.progress, Whole(80)) -> 5
      [] e.status \in {"Completed", "SUCCESS"} /\ FracEq(e.progress, Whole(100)) -> 6
      [] OTHER -> 0

\* the milestones of a history in the order written, a repeated one kept once
RECURSIVE MilestoneTrace(_)
MilestoneTrace(h) ==
    IF h = << >> THEN << >>
    ELSE LET front == MilestoneTrace(SubSeq(h, 1, Len(h) - 1))
             r == Rank(h[Len(h)])
         IN IF r = 0 \/ (front # << >> /\ front[Len(front)] = r)
              THEN front
              ELSE Append(front, r)

InProcess(t) == t \in Registered
AtSuccess(t) == hist[t] # << >> /\ Rank(hist[t][Len(hist[t])]) = 6

WorkerNext(t) ==
    \/ WorkerStart(t)
    \/ \E k \in 0..MaxProcessed : PreprocessReturn(t, k)
    \/ OcrReturn(t)
    \/ ExtractReturn(t)
    \/ \E e \in ErrTexts : AwaitRaise(t, e)
    \/ Milestone60(t) \/ Validate(t) \/ Export(t) \/ WriteCsv(t) \/ WriteExcel(t) \/ Publish(t)
    \/ \E e \in ErrTexts : SyncRaise(t, e)
    \/ \E k \in 0..MaxProcessed : TaskPreprocess(t, k)
    \/ TaskOcr(t) \/ TaskExtract(t) \/ TaskMilestone60(t) \/ TaskValidate(t)
    \/ TaskExport(t) \/ TaskWrite(t) \/ TaskSuccess(t)
    \/ \E e \in ErrTexts : TaskRaise(t, e)
    \/ \E ok \in BOOLEAN : TaskCleanup(t, ok)

\* every collaborator call returns or raises, and the worker keeps being scheduled
FairSpec == Spec /\ \A t \in TaskIds : WF_vars(WorkerNext(t))

\* the task has been handed to a worker
Submitted(t) == pc[t] \notin {"none", "uploading", "upload_failed"}
\* the worker of either variant has ended
Ended(t) == pc[t] \in {"done", "failed", "c_done"}
Terminal(t) ==
    \/ t \in Registered /\ Status(t) \in {"Completed", "Failed", "Cancelled"}
    \/ t \in DOMAIN celery_backend /\ celery_backend[t].state \in {"SUCCESS", "FAILURE"}

\* C7: under fair scheduling every submitted task reaches the end of its
\* worker with a terminal status recorded; its status does not stay at
\* Processing for ever.
C7_EventuallyTerminal ==
    \A t \in TaskIds : Submitted(t) ~> (Ended(t) /\ Terminal(t))

\* a queued run failed in the middle of its extraction loop and ended
C7_Witness ==
    \E t \in DOMAIN celery_backend :
        /\ pc[t] = "c_done"
        /\ celery_backend[t].state = "FAILURE"
        /\ loop_i[t] >= 1 /\ loop_i[t] < processed_files[t]

\* C8: a run during which the soft time limit fired ends in FAILURE with the
\* time-limit message, which no other exception's message equals.
C8_TimeLimitFailure ==
    /\ \A e \in ErrTexts : "Error: " \o e # TimeLimitMessage
    /\ \A t \in limit_fired :
          pc[t] = "c_done" =>
             /\ celery_backend[t].state = "FAILURE"
             /\ celery_backend[t].meta.message = TimeLimitMessage

\* C9: when a task's worker has made its terminal transition and ended, the
\* task's temporary directory does not exist (a removal that itself failed
\* set aside).
C9_TempDirRemoved ==
    \A t \in TaskIds :
        (Ended(t) /\ Terminal(t) /\ task_outcome[t].how # "raised") => ~HasDir(t)

\* C10: when the worker has ended, also after a failed removal of the temp
\* dir, it has returned the payload of the outcome it had reported.
C10_CleanupFailureOnlyLogged ==
    \A t \in DOMAIN celery_backend :
        pc[t] = "c_done" =>
            /\ task_outcome[t].how = "returned"
            /\ task_outcome[t].message = celery_backend[t].meta.message

\* =================================================== OCREngine (ocr_engine.py)
\* the positions of the documents of a call
DocIds == 1..MaxDocs

SettingsChoices == [BATCH_SIZE : 1..MaxDocs, MAX_WORKERS : {1, MAX_WORKERS_default}]

\* ocr_engine.py:50
optimal_batch_size(total_documents) ==
    Max(1, Min(settings.BATCH_SIZE, total_documents \div settings.MAX_WORKERS))

\* the slice of line 51 taken one position early
BatchOf_shifted(k) ==
    LET size == optimal_batch_size(Len(documents))
    IN {i \in 1..Len(documents) : (k - 1) * size <= i /\ i < k * size}

\* ocr_engine.py:51: the indices of the documents of batch k (k = 1, 2, ...)
BatchOf(k) ==
    LET size == optimal_batch_size(Len(documents))
    IN {i \in 1..Len(documents) : (k - 1) * size < i /\ i <= k * size}
NumBatches ==
    LET size == optimal_batch_size(Len(documents))
    IN (Len(documents) + size - 1) \div size

\* ocr_engine.py:87-104: an attempt of _process_document runs up to its first
\* await: the cache lookup when self.redis is set, else _process_single_page
FirstAwait(d) ==
    IF redis # "None"
      THEN [d EXCEPT !.pc = "get", !.attempt = @ + 1]
      ELSE [d EXCEPT !.pc = "gcv", !.attempt = @ + 1, !.gcv_calls = @ + 1]

\* process_batch (ocr_engine.py:45-46): gather starts one coroutine per document
StartBatch(docs, k) ==
    [i \in DOMAIN docs |-> IF i \in BatchOf(k) THEN FirstAwait(docs[i]) ELSE docs[i]]

\* ocr_engine.py:125-130 and the retry wrapper of line 68: the attempt raised
\* err; after stop_after_attempt attempts RetryError is raised, before that
\* the wrapper sleeps wait_exponential(attempt) seconds
AttemptFailed(d, err) ==
    IF d.attempt >= stop_after_attempt
      THEN [d EXCEPT !.pc = "raised", !.error = "RetryError"]
      ELSE [d EXCEPT !.pc = "sleep", !.error = err,
                     !.waits = Append(@, wait_exponential(d.attempt))]

\* ocr_engine.py:37-38
initialize ==
    /\ calls = 0
    /\ redis = "None"
    /\ redis' = "client"
    /\ UNCHANGED <<settings, redis_store, documents, pd_pc, batch_index, results, pd_status, doc,
                   calls, reached_store>>
    /\ UNCHANGED <<task_vars, extract_vars, aux_vars>>

\* ocr_engine.py:40-54: the call, up to the await of the first batch
process_documents(docs) ==
    /\ pd_pc \in {"idle", "returned", "raised"}
    /\ \A i \in DOMAIN doc : doc[i].pc \in {"pending", "returned", "raised"}
    /\ calls < MaxCalls
    /\ calls' = calls + 1
    /\ documents' = docs
    /\ results' = << >>
    /\ batch_index' = 1
    /\ pd_pc' = "running"
    /\ doc' = LET size == Max(1, Min(settings.BATCH_SIZE, Len(docs) \div settings.MAX_WORKERS))
                  fresh(i) == [FreshDoc EXCEPT !.after_store = docs[i].content \in reached_store]
              IN [i \in 1..Len(docs) |-> IF i <= size THEN FirstAwait(fresh(i)) ELSE fresh(i)]
    /\ UNCHANGED <<settings, redis, redis_store, pd_status, reached_store>>
    /\ UNCHANGED <<task_vars, extract_vars, aux_vars>>

\* ocr_engine.py:90-104: redis.get returns; a hit returns the loaded value,
\* a miss goes on to _process_single_page
RedisGetReturn(i) ==
    /\ i \in DOMAIN doc
    /\ doc[i].pc = "get"
    /\ LET key == cache_key(documents[i])
       IN doc' = [doc EXCEPT ![i] =
                    IF key \in DOMAIN redis_store
                      THEN [@ EXCEPT !.pc = "returned", !.result = json_loads(redis_store[key])]
                      ELSE [@ EXCEPT !.pc = "gcv", !.gcv_calls = @ + 1]]
    /\ UNCHANGED <<settings, redis, redis_store, documents, pd_pc, batch_index, results, pd_status,
                   calls, reached_store>>
    /\ UNCHANGED <<task_vars, extract_vars, aux_vars>>

\* ocr_engine.py:90, 125-130: redis.get raises (the store is unreachable)
RedisGetRaise(i) ==
    /\ i \in DOMAIN doc
    /\ doc[i].pc = "get"
    /\ doc' = [doc EXCEPT ![i] =
                 AttemptFailed([@ EXCEPT !.cache_errors = @ + 1], "ConnectionError")]
    /\ UNCHANGED <<settings, redis, redis_store, documents, pd_pc, batch_index, results, pd_status,
                   calls, reached_store>>
    /\ UNCHANGED <<task_vars, extract_vars, aux_vars>>

\* ocr_engine.py:104-110, 142-156: the OCR call and the layout call returned;
\* _get_docai_results is awaited next
SinglePageReturn(i) ==
    /\ i \in DOMAIN doc
    /\ doc[i].pc = "gcv"
    /\ doc' = [doc EXCEPT ![i] = [@ EXCEPT !.pc = "docai", !.docai_calls = @ + 1,
                                              !.docai_attempt = 1, !.docai = ""]]
    /\ UNCHANGED <<settings, redis, redis_store, documents, pd_pc, batch_index, results, pd_status,
                   calls, reached_store>>
    /\ UNCHANGED <<task_vars, extract_vars, aux_vars>>

\* ocr_engine.py:157-159, 205-207, 214-216: the OCR/layout collaborator raised
SinglePageRaise(i) ==
    /\ i \in DOMAIN doc
    /\ doc[i].pc = "gcv"
    /\ doc' = [doc EXCEPT ![i] =
                 AttemptFailed([@ EXCEPT !.gcv_failures = @ + 1], "GCV error")]
    /\ UNCHANGED <<settings, redis, redis_store, documents, pd_pc, batch_index, results, pd_status,
                   calls, reached_store>>
    /\ UNCHANGED <<task_vars, extract_vars, aux_vars>>

\* ocr_engine.py:113-124, with docai the value _get_docai_results returned:
\* extracted_data is the coroutine object; with self.redis set it is dumped
\* and stored (set_ok: redis.set succeeds), then returned
AfterDocai(d, i, docai, set_ok) ==
    LET extracted_data == Coroutine(documents[i].content, docai)
        dumped == json_dumps(extracted_data)
    IN IF redis = "None" THEN [d EXCEPT !.pc = "returned", !.result = extracted_data]
       ELSE IF ~dumped.ok THEN AttemptFailed(d, "TypeError")
       ELSE IF ~set_ok THEN AttemptFailed([d EXCEPT !.cache_errors = @ + 1], "ConnectionError")
       ELSE [d EXCEPT !.pc = "returned", !.result = extracted_data]

\* the store after ocr_engine.py:118
AfterSet(i, docai, set_ok) ==
    LET extracted_data == Coroutine(documents[i].content, docai)
        dumped == json_dumps(extracted_data)
    IN IF redis # "None" /\ dumped.ok /\ set_ok
         THEN Put(redis_store, cache_key(documents[i]), extracted_data)
         ELSE redis_store

\* the extraction of document i has got to `if self.redis:` of line 115 with
\* the client set
ReachedStore(i) ==
    IF redis # "None" THEN reached_store \cup {documents[i].content} ELSE reached_store

\* ocr_engine.py:285-313: the structured-entity collaborator answered
DocaiReturn(i, set_ok) ==
    /\ i \in DOMAIN doc
    /\ doc[i].pc = "docai"
    /\ doc' = [doc EXCEPT ![i] = AfterDocai([@ EXCEPT !.docai = "dict"], i, "dict", set_ok)]
    /\ redis_store' = AfterSet(i, "dict", set_ok)
    /\ reached_store' = ReachedStore(i)
    /\ UNCHANGED <<settings, redis, documents, pd_pc, batch_index, results, pd_status, calls>>
    /\ UNCHANGED <<task_vars, extract_vars, aux_vars>>

\* ocr_engine.py:314-316: the structured-entity collaborator raised; the body
\* catches it and returns None, so the retry wrapper of line 256 sees a
\* normal return
DocaiRaise(i, set_ok) ==
    /\ i \in DOMAIN doc
    /\ doc[i].pc = "docai"
    /\ doc' = [doc EXCEPT ![i] =
                 AfterDocai([@ EXCEPT !.docai_failures = @ + 1, !.docai = "None"],
                            i, "None", set_ok)]
    /\ redis_store' = AfterSet(i, "None", set_ok)
    /\ reached_store' = ReachedStore(i)
    /\ UNCHANGED <<settings, redis, documents, pd_pc, batch_index, results, pd_status, calls>>
    /\ UNCHANGED <<task_vars, extract_vars, aux_vars>>

\* the retry wrapper wakes from its sleep and starts the next attempt
RetryWake(i) ==
    /\ i \in DOMAIN doc
    /\ doc[i].pc = "sleep"
    /\ doc' = [doc EXCEPT ![i] = FirstAwait(@)]
    /\ UNCHANGED <<settings, redis, redis_store, documents, pd_pc, batch_index, results, pd_status,
                   calls, reached_store>>
    /\ UNCHANGED <<task_vars, extract_vars, aux_vars>>

\* ocr_engine.py:47: the dict of a batch, a later document of the same
\* filename replacing an earlier one
RECURSIVE BatchResults(_, _)
BatchResults(acc, idxs) ==
    IF idxs = {} THEN acc
    ELSE LET i == CHOOSE x \in idxs : \A y \in idxs : x <= y
         IN BatchResults(Put(acc, documents[i].filename, doc[i].result), idxs \ {i})

\* process_documents that does not await a batch before it goes on
BatchJoin_unawaited ==
    /\ pd_pc = "running"
    /\ results' = BatchResults(results, BatchOf(batch_index))
    /\ pd_status' = update_processing_status(Len(documents),
                       Min(batch_index * optimal_batch_size(Len(documents)), Len(documents)))
    /\ IF batch_index < NumBatches
         THEN /\ batch_index' = batch_index + 1
              /\ doc' = StartBatch(doc, batch_index + 1)
              /\ pd_pc' = pd_pc
         ELSE /\ pd_pc' = "returned"
              /\ UNCHANGED <<batch_index, doc>>
    /\ UNCHANGED <<settings, redis, redis_store, documents, calls, reached_store>>
    /\ UNCHANGED <<task_vars, extract_vars, aux_vars>>

\* ocr_engine.py:46-59: every coroutine of the batch returned: gather returns,
\* results is updated, the status computed, and the next batch is started or
\* the results are returned (line 66)
BatchJoin ==
    /\ pd_pc = "running"
    /\ \A i \in BatchOf(batch_index) : doc[i].pc = "returned"
    /\ results' = BatchResults(results, BatchOf(batch_index))
    /\ pd_status' = update_processing_status(Len(documents),
                       Min(batch_index * optimal_batch_size(Len(documents)), Len(documents)))
    /\ IF batch_index < NumBatches
         THEN /\ batch_index' = batch_index + 1
              /\ doc' = StartBatch(doc, batch_index + 1)
              /\ pd_pc' = pd_pc
         ELSE /\ pd_pc' = "returned"
              /\ UNCHANGED <<batch_index, doc>>
    /\ UNCHANGED <<settings, redis, redis_store, documents, calls, reached_store>>
    /\ UNCHANGED <<task_vars, extract_vars, aux_vars>>

\* ocr_engine.py:46, 54: a coroutine of the batch raised: gather (without
\* return_exceptions) raises it into process_batch at once, and
\* process_documents, which catches nothing, raises it to its caller; the
\* other coroutines of the batch are left running
BatchRaise ==
    /\ pd_pc = "running"
    /\ \E i \in BatchOf(batch_index) : doc[i].pc = "raised"
    /\ pd_pc' = "raised"
    /\ UNCHANGED <<settings, redis, redis_store, documents, batch_index, results, pd_status, doc,
                   calls, reached_store>>
    /\ UNCHANGED <<task_vars, extract_vars, aux_vars>>

EngineInit ==
    /\ TaskInit
    /\ ExtractIdle
    /\ AuxIdle
    /\ settings \in SettingsChoices
    /\ redis = "None"
    /\ redis_store = << >>
    /\ documents = << >>
    /\ pd_pc = "idle"
    /\ batch_index = 0
    /\ results = << >>
    /\ pd_status = NoEngineStatus
    /\ doc = << >>
    /\ calls = 0
    /\ reached_store = {}

EngineNext ==
    \/ initialize
    \/ \E docs \in DocumentLists : process_documents(docs)
    \/ \E i \in DocIds :
          \/ RedisGetReturn(i)
          \/ RedisGetRaise(i)
          \/ SinglePageReturn(i)
          \/ SinglePageRaise(i)
          \/ \E set_ok \in BOOLEAN : DocaiReturn(i, set_ok)
          \/ \E set_ok \in BOOLEAN : DocaiRaise(i, set_ok)
          \/ RetryWake(i)
    \/ BatchJoin
    \/ BatchRaise

EngineSpec == EngineInit /\ [][EngineNext]_vars

\* ------------------------------------------- process_documents on longer lists
MaxTotal == 4        \* documents of one process_documents call
MaxBatchSize == 2    \* settings.BATCH_SIZE
MaxWorkerCount == 2  \* settings.MAX_WORKERS

BatchSettings == [BATCH_SIZE : 1..MaxBatchSize, MAX_WORKERS : 1..MaxWorkerCount]
\* one list of documents per length
LongLists ==
    {[i \in 1..n |-> Document(IF i % 2 = 1 THEN "f1" ELSE "f2", IF i % 3 = 1 THEN "a" ELSE "b")] :
        n \in 1..MaxTotal}

BatchInit ==
    /\ TaskInit
    /\ ExtractIdle
    /\ AuxIdle
    /\ settings \in BatchSettings
    /\ redis = "None"
    /\ redis_store = << >>
    /\ documents = << >>
    /\ pd_pc = "idle"
    /\ batch_index = 0
    /\ results = << >>
    /\ pd_status = NoEngineStatus
    /\ doc = << >>
    /\ calls = 0
    /\ reached_store = {}

BatchNext ==
    \/ \E docs \in LongLists : process_documents(docs)
    \/ \E i \in 1..MaxTotal :
          \/ SinglePageReturn(i)
          \/ SinglePageRaise(i)
          \/ DocaiReturn(i, TRUE)
          \/ RetryWake(i)
    \/ BatchJoin
    \/ BatchRaise

BatchSpec == BatchInit /\ [][BatchNext]_vars

\* ------------------------------------------------ properties of the engine
\* the _process_document coroutine of document i has ended
DocEnded(i) == doc[i].pc \in {"returned", "raised"}
\* the OCR/layout collaborator was called for document i and failed every time
GcvAlwaysFailed(i) ==
    /\ doc[i].gcv_calls >= 1
    /\ doc[i].gcv_failures = doc[i].gcv_calls
    /\ doc[i].cache_errors = 0

\* C11: when the OCR/layout collaborator fails on every call for a document,
\* the document is marked failed only after exactly 3 attempts, and the delays
\* slept between the attempts lie between 4 s and 10 s, each larger than the
\* one before.
C11_RetryExhaustion ==
    \A i \in DOMAIN doc :
        (GcvAlwaysFailed(i) /\ doc[i].pc = "raised") =>
            /\ doc[i].gcv_calls = 3
            /\ doc[i].attempt = 3
            /\ \A k \in 1..Len(doc[i].waits) : 4 <= doc[i].waits[k] /\ doc[i].waits[k] <= 10
            /\ \A k \in 1..(Len(doc[i].waits) - 1) : doc[i].waits[k] < doc[i].waits[k + 1]

\* C12: _get_docai_results gives back None for a failing structured-entity
\* collaborator only after the collaborator has been tried 3 times in that call.
C12_DocaiRetried ==
    \A i \in DOMAIN doc :
        doc[i].docai = "None" => doc[i].docai_attempt = 3

\* C13: a document processed after an extraction of the same bytes got to the
\* store (client set, neither cache operation failing) is answered from the
\* cache: no call to either collaborator, and the loaded value returned.
C13_CacheRoundTrip ==
    \A i \in DOMAIN doc :
        (doc[i].after_store /\ doc[i].cache_errors = 0 /\ doc[i].attempt >= 1)
            => /\ doc[i].gcv_calls = 0
               /\ doc[i].docai_calls = 0
               /\ doc[i].pc \in {"get", "returned"}
               /\ doc[i].pc = "returned" => doc[i].result.kind = "json"

\* C14: two documents of one call with the same bytes cost one invocation of
\* each collaborator between them, and end with the same output.
C14_IdenticalBytesOneInvocation ==
    \A i \in DOMAIN doc : \A j \in DOMAIN doc :
        (i < j /\ documents[i].content = documents[j].content)
            => /\ doc[i].gcv_calls + doc[j].gcv_calls <= 1
               /\ doc[i].docai_calls + doc[j].docai_calls <= 1
               /\ (DocEnded(i) /\ DocEnded(j)) => doc[i].result = doc[j].result

\* C15: a document for which a cache operation failed, or which ran with no
\* cache client, and whose collaborators answered, does not fail: it returns
\* what it returns without a cache.
C15_CacheAdvisory ==
    \A i \in DOMAIN doc :
        (DocEnded(i) /\ doc[i].gcv_failures = 0 /\ (doc[i].cache_errors >= 1 \/ redis = "None"))
            => /\ doc[i].pc = "returned"
               /\ doc[i].result = Coroutine(documents[i].content, doc[i].docai)

\* C16: a document failing after its retries does not make process_documents
\* raise: the call goes on, and what it returns holds the result of every
\* other document.
C16_FailureIsolated ==
    \A i \in DOMAIN doc : \A j \in DOMAIN doc :
        (doc[i].pc = "raised" /\ doc[j].pc = "returned")
            => /\ pd_pc # "raised"
               /\ pd_pc = "returned" => documents[j].filename \in DOMAIN results

\* ============================================= DataExtractor (data_extractor.py)
\* entities.get(key, '')
GetStr(v) == IF v = Absent THEN "" ELSE v
GetSeq(v) == IF v = AbsentSeq THEN << >> ELSE v

\* datetime.strptime(s, '%Y-%m-%d').date(); ValueError gives None (lines 209-213)
Strptime(s) == IF s \in {DatePast, DateFuture} THEN s ELSE NoneStr

\* the result of a function that returns an Invoice or raises ValidationError:
\* fields are the keyword arguments the constructor was (or would be) given
Built(tier, f) == [ok |-> InvoiceOk(f), tier |-> tier, fields |-> f]

\* data_extractor.py:240-251 and 370-384: the item of one table row, or
\* [ok |-> FALSE] when the row is skipped: fewer than 4 cells, int() raising
\* ValueError, or InvoiceItem raising ValidationError (a ValueError)
RowItem(row) ==
    IF Len(row) < 4 THEN InvoiceItem(<< >>, NoneInt, NoneDec, NoneDec)
    ELSE LET quantity == IF IsBlank(row[2]) THEN NoneInt ELSE PyInt(row[2])
             unit_price == IF IsBlank(row[3]) THEN NoneDec ELSE parse_decimal(row[3])
             total == IF IsBlank(row[4]) THEN NoneDec ELSE parse_decimal(row[4])
         IN InvoiceItem(row[1], quantity, unit_price, total)

\* the items appended for a sequence of rows, in order
RECURSIVE RowItems(_)
RowItems(rows) ==
    IF rows = << >> THEN << >>
    ELSE RowItems(SubSeq(rows, 1, Len(rows) - 1))
            \o SelectSeq(<<RowItem(rows[Len(rows)])>>, LAMBDA item : item.ok)

\* data_extractor.py:236-251: every row of every table
RECURSIVE DocaiItems(_)
DocaiItems(tables) ==
    IF tables = << >> THEN << >>
    ELSE DocaiItems(SubSeq(tables, 1, Len(tables) - 1)) \o RowItems(tables[Len(tables)])

\* data_extractor.py:364-386: of every table the rows after the first
RECURSIVE extract_items(_)
extract_items(tables) ==
    IF tables = << >> THEN << >>
    ELSE extract_items(SubSeq(tables, 1, Len(tables) - 1))
            \o (IF Len(tables[Len(tables)]) > 1 THEN RowItems(Tail(tables[Len(tables)]))
                ELSE << >>)

\* the keyword arguments _extract_from_docai builds (data_extractor.py:195-263)
\* grand_total and final_total are both total_amount (lines 257, 259)
DocaiFieldsOf(e, tables, filename, total_amount) ==
    InvoiceFields(filename, GetSeq(e.invoice_id),
                  Vendor(GetStr(e.supplier_name),
                         Address(GetStr(e.supplier_address), GetStr(e.supplier_city),
                                 GetStr(e.supplier_state), GetStr(e.supplier_country),
                                 GetStr(e.supplier_zip))),
                  IF e.invoice_date = Absent THEN NoneStr ELSE Strptime(e.invoice_date),
                  total_amount,
                  IF e.total_tax_amount = AbsentSeq THEN NoneDec
                  ELSE parse_decimal(GetSeq(e.total_tax_amount)),
                  total_amount,
                  DocaiItems(tables),
                  1)
DocaiFields(d, filename) ==
    DocaiFieldsOf(d.entities, d.tables, filename,
                  IF d.entities.total_amount = AbsentSeq THEN NoneDec
                  ELSE parse_decimal(GetSeq(d.entities.total_amount)))

\* data_extractor.py:194-263: Address(...), Vendor(...) and Invoice(...) each
\* raise ValidationError when their validation fails
extract_from_docai(d, filename) == Built("docai", DocaiFields(d, filename))

\* re.search(r'\b\d{5}(?:-\d{4})?\b', line) and
\* re.search(r'([A-Za-z\s]+),\s*([A-Z]{2})', line) on the lines of the model
PostalMatch(line) == IF line = "Springfield, IL 62704" THEN "62704" ELSE ""
CityStateMatch(line) ==
    IF line = "Springfield, IL 62704" THEN <<"Springfield", "IL">> ELSE <<"", "">>

\* data_extractor.py:317-343, on the lines of address_text; country stays ""
AddressOf(street, line) ==
    Address(street, CityStateMatch(line)[1], CityStateMatch(line)[2], "", PostalMatch(line))
extract_address(address_lines) ==
    AddressOf(IF address_lines = << >> THEN "" ELSE address_lines[1],
              IF Len(address_lines) > 1 THEN address_lines[2] ELSE "")

\* data_extractor.py:304-315: the first line is the name, the next three the address
extract_vendor(lines) ==
    Vendor(lines[1],
           extract_address(IF Len(lines) > 1 THEN SubSeq(lines, 2, Min(4, Len(lines)))
                           ELSE <<"">>))

\* the labels of the text in which re.search(r'(?i)<word>[:\s]*...') finds <word>
LabelsHolding(word) ==
    CASE word = "subtotal" -> {"Subtotal"}
      [] word = "tax" -> {"Tax"}
      [] word = "total" -> {"Subtotal", "Total"}

\* the amount of the first match of the pattern for word, None without a match
Hits(amounts, word) == {k \in 1..Len(amounts) : amounts[k].label \in LabelsHolding(word)}
FirstAmount(amounts, word) ==
    IF Hits(amounts, word) = {} THEN NoneDec
    ELSE parse_decimal(amounts[Least(Hits(amounts, word))].amount)

\* data_extractor.py:345-362: <<grand_total, taxes, final_total>>
extract_totals(amounts) ==
    <<FirstAmount(amounts, "subtotal"), FirstAmount(amounts, "tax"), FirstAmount(amounts, "total")>>

\* the date of the first string of a stage that the parser accepts
FirstParsed(dates, stage) ==
    IF \A k \in 1..Len(dates) : dates[k].stage # stage \/ dates[k].parsed = NoneStr
      THEN NoneStr
      ELSE dates[Least({k \in 1..Len(dates) :
                           dates[k].stage = stage /\ dates[k].parsed # NoneStr})].parsed
OrLater(found, later) == IF found # NoneStr THEN found ELSE later

\* _extract_date that falls back on a date of its own when no string parses
extract_date_or_today(dates) ==
    OrLater(FirstParsed(dates, "labeled"),
            OrLater(FirstParsed(dates, "pattern"),
                    OrLater(FirstParsed(dates, "word"), "<today>")))

\* data_extractor.py:38-154: the labelled patterns, then the bare date
\* patterns, then the word scan; each returns the first date parsed, and
\* line 154 returns None when none did
extract_date(dates) ==
    OrLater(FirstParsed(dates, "labeled"),
            OrLater(FirstParsed(dates, "pattern"), FirstParsed(dates, "word")))

\* the keyword arguments _extract_from_gcv builds (data_extractor.py:265-290)
GcvFieldsOf(o, totals) ==
    InvoiceFields(o.filename, o.number, extract_vendor(o.lines), extract_date(o.dates),
                  totals[1], totals[2], totals[3], extract_items(o.tables), o.num_pages)
GcvFields(o) == GcvFieldsOf(o, extract_totals(o.amounts))

\* data_extractor.py:265-290
extract_from_gcv(o) == Built("gcv", GcvFields(o))

\* data_extractor.py:188-192
is_invoice_valid(f) ==
    \/ f.invoice_number # << >> /\ f.invoice_number # AbsentSeq
    \/ f.vendor.name # ""
    \/ f.invoice_date # NoneStr
    \/ ~f.grand_total.none

\* data_extractor.py:177-186
\* lines 179-186: the structured candidate is returned when it was built
\* and passes _is_invoice_valid; a ValidationError of its construction
\* propagates (ok |-> FALSE)
StructuredFirst(use_docai, invoice, heuristic) ==
    IF use_docai /\ (~invoice.ok \/ is_invoice_valid(invoice.fields)) THEN invoice
    ELSE heuristic
extract_invoice_data(o, d) ==
    StructuredFirst(d.present /\ d.has_entities, extract_from_docai(d, o.filename),
                    extract_from_gcv(o))

\* data_extractor.py:156-175 with self.redis None (line 22; initialize is
\* never called): the except branch builds Invoice(filename=...)
OrElse(invoice, fallback) == IF invoice.ok THEN invoice ELSE fallback
extract_single_result(o) ==
    OrElse(extract_invoice_data(o, NoDocai), Built("blank", BlankFields(o.filename)))

\* the outcome of a call: what it returned, or that it raised
Returned(call, value) == [call |-> call, kind |-> "returned", invoices |-> value, error |-> ""]
Raises(call, error) == [call |-> call, kind |-> "raised", invoices |-> << >>, error |-> error]

\* a call that returns the invoice built or raises its ValidationError
Outcome(call, invoice) ==
    IF invoice.ok THEN Returned(call, <<invoice>>) ELSE Raises(call, "ValidationError")
\* asyncio.gather(*tasks) and the except branch of extract_data
Gathered(each, blank) ==
    IF \A k \in 1..Len(each) : each[k].ok THEN Returned("extract_data", each)
    ELSE IF \A k \in 1..Len(blank) : blank[k].ok THEN Returned("extract_data", blank)
    ELSE Raises("extract_data", "ValidationError")

\* ---- the calls
\* extract_invoice_data(ocr_results[0], docai_result)
CallExtractInvoiceData ==
    /\ extracted = NotCalled
    /\ extracted' = Outcome("extract_invoice_data",
                            extract_invoice_data(ocr_results[1], docai_result))
    /\ UNCHANGED <<ocr_results, docai_result>>
    /\ UNCHANGED <<task_vars, engine_vars, aux_vars>>

\* _extract_single_result(ocr_results[0])
CallExtractSingleResult ==
    /\ extracted = NotCalled
    /\ docai_result = NoDocai
    /\ extracted' = Outcome("_extract_single_result", extract_single_result(ocr_results[1]))
    /\ UNCHANGED <<ocr_results, docai_result>>
    /\ UNCHANGED <<task_vars, engine_vars, aux_vars>>

\* data_extractor.py:27-36: gather over the results; when one of them raises,
\* the except branch builds Invoice(filename=...) for each result
CallExtractData ==
    /\ extracted = NotCalled
    /\ docai_result = NoDocai
    /\ extracted' =
          Gathered([k \in 1..Len(ocr_results) |-> extract_single_result(ocr_results[k])],
                   [k \in 1..Len(ocr_results) |->
                       Built("blank", BlankFields(ocr_results[k].filename))])
    /\ UNCHANGED <<ocr_results, docai_result>>
    /\ UNCHANGED <<task_vars, engine_vars, aux_vars>>

\* _extract_items(ocr_results[0]): the items as a list
CallExtractItems ==
    /\ extracted = NotCalled
    /\ docai_result = NoDocai
    /\ extracted' = [call |-> "_extract_items", kind |-> "returned",
                     invoices |-> extract_items(ocr_results[1].tables), error |-> ""]
    /\ UNCHANGED <<ocr_results, docai_result>>
    /\ UNCHANGED <<task_vars, engine_vars, aux_vars>>

\* _extract_totals(text) of ocr_results[0]: the tuple grand_total, taxes, final_total
CallExtractTotals ==
    /\ extracted = NotCalled
    /\ docai_result = NoDocai
    /\ extracted' = Returned("_extract_totals", extract_totals(ocr_results[1].amounts))
    /\ UNCHANGED <<ocr_results, docai_result>>
    /\ UNCHANGED <<task_vars, engine_vars, aux_vars>>

\* _extract_date(text) of ocr_results[0]
CallExtractDate ==
    /\ extracted = NotCalled
    /\ docai_result = NoDocai
    /\ extracted' = Returned("_extract_date", <<extract_date(ocr_results[1].dates)>>)
    /\ UNCHANGED <<ocr_results, docai_result>>
    /\ UNCHANGED <<task_vars, engine_vars, aux_vars>>

\* the argument list: one OCR result with any docai_result, or several OCR
\* results (the calls on a list take no docai_result)
ExtractInit ==
    /\ TaskInit
    /\ EngineIdle
    /\ AuxIdle
    /\ extracted = NotCalled
    /\ \E o \in OcrSamples :
          \/ ocr_results = <<o>> /\ docai_result \in DocaiSamples
          \/ \E n \in 2..MaxResults :
                /\ ocr_results = [k \in 1..n |-> o]
                /\ docai_result = NoDocai

ExtractNext ==
    \/ CallExtractInvoiceData
    \/ CallExtractSingleResult
    \/ CallExtractData
    \/ CallExtractItems
    \/ CallExtractTotals
    \/ CallExtractDate

ExtractSpec == ExtractInit /\ [][ExtractNext]_vars

\* ------------------------------------------- _parse_decimal and str(Decimal)
MaxAmountLen == 3    \* the amount strings are all strings up to this length, and some longer ones

DigitChar(v) == <<"0", "1", "2", "3", "4", "5", "6", "7", "8", "9">>[v + 1]
\* the decimal digits of a natural number, without leading zeros
RECURSIVE IntDigits(_)
IntDigits(n) == IF n < 10 THEN <<DigitChar(n)>> ELSE Append(IntDigits(n \div 10), DigitChar(n % 10))
Zeros(n) == [k \in 1..n |-> "0"]

\* Decimal.__str__ for digits and an exponent that is not positive:
\* leftdigits is the number of digits left of the point; dotplace is where
\* the point is written, leftdigits in plain notation and 1 in scientific
\* notation, which is used when leftdigits <= -6; the exponent part is
\* written when the two differ
Notation(sign, digits, leftdigits, dotplace) ==
    sign
    \o (IF dotplace <= 0 THEN <<"0", ".">> \o Zeros(-dotplace) \o digits
        ELSE IF dotplace >= Len(digits) THEN digits \o Zeros(dotplace - Len(digits))
        ELSE SubSeq(digits, 1, dotplace) \o <<".">> \o SubSeq(digits, dotplace + 1, Len(digits)))
    \o (IF leftdigits = dotplace THEN << >>
        ELSE <<"E", IF leftdigits - dotplace < 0 THEN "-" ELSE "+">>
                \o IntDigits(Abs(leftdigits - dotplace)))
Written(sign, digits, leftdigits) ==
    Notation(sign, digits, leftdigits, IF leftdigits > -6 THEN leftdigits ELSE 1)
\* str(d) of a Decimal d
DecimalStr(d) ==
    Written(IF d.coef < 0 THEN <<"-">> ELSE << >>, IntDigits(Abs(d.coef)),
            Len(IntDigits(Abs(d.coef))) - d.scale)

\* Decimal == Decimal: equal as numbers; None equals None only
DecEq(a, b) ==
    IF a.none \/ b.none THEN a.none /\ b.none
    ELSE AtScale(a, Max(a.scale, b.scale)) = AtScale(b, Max(a.scale, b.scale))

AmountChars == {"0", "1", ".", "-", "$"}
AmountStrings ==
    UNION {[1..n -> AmountChars] : n \in 0..MaxAmountLen}
    \cup {A108, <<"$", "1", "0", "8", ".", "0", "0">>,
          <<"0", ".", "0", "0", "0", "0", "0", "1">>,
          <<"0", ".", "0", "0", "0", "0", "0", "0", "1">>,
          <<"0", ".", "0", "0", "0", "0", "0", "0", "0">>}

\* _parse_decimal(parse_input)
CallParseDecimal ==
    /\ extracted = NotCalled
    /\ extracted' = Returned("_parse_decimal", <<parse_decimal(parse_input)>>)
    /\ UNCHANGED <<ocr_results, docai_result, parse_input, invoices, exported, cleanup_log,
                   docai_request>>
    /\ UNCHANGED <<task_vars, engine_vars>>

\* _parse_decimal(str(d)) for the value d the first call returned
CallParseStr ==
    /\ extracted.call = "_parse_decimal"
    /\ ~extracted.invoices[1].none
    /\ extracted' = Returned("_parse_decimal(str(d))",
                              <<extracted.invoices[1],
                                parse_decimal(DecimalStr(extracted.invoices[1]))>>)
    /\ UNCHANGED <<ocr_results, docai_result, parse_input, invoices, exported, cleanup_log,
                   docai_request>>
    /\ UNCHANGED <<task_vars, engine_vars>>

ParseInit ==
    /\ TaskInit
    /\ EngineIdle
    /\ ExtractIdle
    /\ parse_input \in AmountStrings
    /\ invoices = << >>
    /\ exported = NotExported
    /\ cleanup_log = << >>
    /\ docai_request = NoRequest

ParseNext ==
    \/ CallParseDecimal
    \/ CallParseStr

ParseSpec == ParseInit /\ [][ParseNext]_vars

\* C23: _parse_decimal is idempotent: when it parses a string to d, parsing
\* str(d) gives d again.
C23_ParseIdempotent ==
    extracted.call = "_parse_decimal(str(d))"
        => DecEq(extracted.invoices[2], extracted.invoices[1])

\* ============================== the bytes a document sends to the collaborators
MaxPages == 2        \* pages of a multi-page document

\* uploaded bytes: images OpenCV decodes, and a PDF, which it does not
ImageBytes == {"jpeg-1", "jpeg-2", "png-1", "png-2"}
UploadBytes == ImageBytes \cup {"%PDF-1"}
PageBytes == {"page-a", "page-b"}

\* a key that a dict does not have
NoKey == "<no key>"

\* ocr_engine.py:164-176: the thresholded PNG of a decodable image; the bytes
\* unchanged when imdecode gives None or (encoded false) imencode fails
preprocess_image_sync(image_bytes, encoded) ==
    IF image_bytes \in ImageBytes \cup PageBytes /\ encoded
      THEN "png(threshold(" \o image_bytes \o "))"
      ELSE image_bytes

\* ocr_engine.py:142-156: the OCR result of one page; gcv_image is the image
\* both calls of the OCR/layout collaborator were given
process_single_page(document, encoded) ==
    [gcv_images |-> <<preprocess_image_sync(document.content, encoded)>>,
     content |-> document.content,
     original_content |-> document.original_content]

\* ocr_engine.py:132-140: one _process_single_page per page, each page its
\* own original; the result has 'original_content' and no 'content'
process_multipage(document, encoded) ==
    [gcv_images |-> [k \in 1..Len(document.pages) |->
                       preprocess_image_sync(document.pages[k], encoded)],
     content |-> NoKey,
     original_content |-> document.original_content]

\* ocr_engine.py:71-83, 101-107: a path is read into a single-page document;
\* a dict gets original_content = content; then the OCR result of the
\* document, with original_content set from the document
WithOriginal(document) ==
    [content |-> document.content, original_content |-> document.content,
     is_multipage |-> IF document.kind = "str" THEN FALSE ELSE document.is_multipage,
     pages |-> document.pages]
OcrResultOf(document, encoded) ==
    IF document.is_multipage THEN process_multipage(document, encoded)
    ELSE process_single_page(document, encoded)
ocr_result_of(document, encoded) == OcrResultOf(WithOriginal(document), encoded)

\* _get_docai_results that sends the image the OCR collaborator was given
docai_content_preprocessed(ocr_result) ==
    IF ocr_result.gcv_images # << >> THEN ocr_result.gcv_images[1]
    ELSE ocr_result.original_content

\* ocr_engine.py:259-266: the content of the RawDocument
docai_content(ocr_result) ==
    IF ocr_result.original_content # NoKey THEN ocr_result.original_content
    ELSE IF ocr_result.content # NoKey THEN ocr_result.content
    ELSE "words"

\* ocr_engine.py:98-110, 276-289: the document is processed up to the call
\* of the structured-entity collaborator
SendToDocai(ocr_result) ==
    docai_request' = [sent |-> TRUE, gcv_images |-> ocr_result.gcv_images,
                      content |-> docai_content(ocr_result)]
ProcessToDocai(encoded) ==
    /\ ~docai_request.sent
    /\ SendToDocai(ocr_result_of(documents[1], encoded))
    /\ UNCHANGED <<parse_input, invoices, exported, cleanup_log>>
    /\ UNCHANGED <<task_vars, engine_vars, extract_vars>>

\* the documents process_documents is handed: a path whose file holds the
\* bytes, a single-page dict, a multi-page dict with its pages
UploadSamples ==
    [kind : {"str", "dict"}, content : UploadBytes, is_multipage : {FALSE}, pages : {<< >>}]
    \cup [kind : {"dict"}, content : UploadBytes, is_multipage : {TRUE},
          pages : UNION {[1..n -> PageBytes] : n \in 0..MaxPages}]

ContentInit ==
    /\ TaskInit
    /\ ExtractIdle
    /\ AuxIdle
    /\ settings = [BATCH_SIZE |-> 1, MAX_WORKERS |-> MAX_WORKERS_default]
    /\ redis = "None"
    /\ redis_store = << >>
    /\ \E d \in UploadSamples : documents = <<d>>
    /\ pd_pc = "idle"
    /\ batch_index = 0
    /\ results = << >>
    /\ pd_status = NoEngineStatus
    /\ doc = << >>
    /\ calls = 0
    /\ reached_store = {}

ContentNext == \E encoded \in BOOLEAN : ProcessToDocai(encoded)

ContentSpec == ContentInit /\ [][ContentNext]_vars

\* C31: the content handed to the structured-entity collaborator is the
\* content the document came with, for a path, a single-page and a multi-page
\* document alike, whatever image the preprocessing gave the OCR collaborator.
C31_DocaiGetsOriginalBytes ==
    docai_request.sent => docai_request.content = documents[1].content
\* a multi-page and a single-page document whose images were preprocessed
\* into other bytes before the OCR call
C31_Witness ==
    /\ docai_request.sent
    /\ docai_request.gcv_images # << >>
    /\ \A k \in 1..Len(docai_request.gcv_images) :
          docai_request.gcv_images[k] \notin UploadBytes \cup PageBytes
    /\ docai_request.content \in ImageBytes

\* ================================================= cleanup of the temp dir
MaxCleanups == 5     \* cleanup steps and outside removals run on one directory

DirFiles == {"in.pdf", "page1.png"}
CleanupStep(t, step, error) ==
    [task |-> t, step |-> step, existed |-> HasDir(t), error |-> error]

\* main.py:255, celery_app.py:35: tempfile.mkdtemp(), then the files saved
\* into the directory
MakeTempDir(t, files) ==
    /\ ~HasDir(t)
    /\ cleanup_log = << >>
    /\ temp_dir' = [temp_dir EXCEPT ![t] = files]
    /\ UNCHANGED <<processing_tasks, direct_results, pc, file_paths, path_idx, processed_files,
                   loop_i, http_reply, cancel_issued, hist, celery_backend, task_outcome,
                   limit_fired>>
    /\ UNCHANGED other_vars

\* celery_app.py:134-139 / 223-228: if os.path.exists(temp_dir):
\* shutil.rmtree(temp_dir), the removal of an existing directory succeeding
finally_cleanup(t) ==
    /\ Len(cleanup_log) < MaxCleanups
    /\ cleanup_log' = Append(cleanup_log, CleanupStep(t, "finally", ""))
    /\ temp_dir' = [temp_dir EXCEPT ![t] = NoDir]
    /\ UNCHANGED <<processing_tasks, direct_results, pc, file_paths, path_idx, processed_files,
                   loop_i, http_reply, cancel_issued, hist, celery_backend, task_outcome,
                   limit_fired>>
    /\ UNCHANGED <<engine_vars, extract_vars, parse_input, invoices, exported, docai_request>>

\* celery_app.py:33-39: the exit of the context manager calls
\* shutil.rmtree(temp_dir) without a check; rmtree of a path that does not
\* exist raises FileNotFoundError
managed_temp_dir(t) ==
    /\ Len(cleanup_log) < MaxCleanups
    /\ cleanup_log' = Append(cleanup_log,
                          CleanupStep(t, "managed_temp_dir",
                                      IF HasDir(t) THEN "" ELSE "FileNotFoundError"))
    /\ temp_dir' = [temp_dir EXCEPT ![t] = NoDir]
    /\ UNCHANGED <<processing_tasks, direct_results, pc, file_paths, path_idx, processed_files,
                   loop_i, http_reply, cancel_issued, hist, celery_backend, task_outcome,
                   limit_fired>>
    /\ UNCHANGED <<engine_vars, extract_vars, parse_input, invoices, exported, docai_request>>

\* the directory is removed by something other than the task's cleanup (the
\* hosting mechanism after a hard kill)
RemovedOutside(t) ==
    /\ HasDir(t)
    /\ Len(cleanup_log) < MaxCleanups
    /\ cleanup_log' = Append(cleanup_log, CleanupStep(t, "outside", ""))
    /\ temp_dir' = [temp_dir EXCEPT ![t] = NoDir]
    /\ UNCHANGED <<processing_tasks, direct_results, pc, file_paths, path_idx, processed_files,
                   loop_i, http_reply, cancel_issued, hist, celery_backend, task_outcome,
                   limit_fired>>
    /\ UNCHANGED <<engine_vars, extract_vars, parse_input, invoices, exported, docai_request>>

CleanupInit == TaskInit /\ EngineIdle /\ ExtractIdle /\ AuxIdle

CleanupNext ==
    \E t \in TaskIds :
        \/ \E files \in SUBSET DirFiles : MakeTempDir(t, files)
        \/ finally_cleanup(t)
        \/ managed_temp_dir(t)
        \/ RemovedOutside(t)

CleanupSpec == CleanupInit /\ [][CleanupNext]_vars

MaxInvoices == 2     \* invoices handed to one export_invoices call

INV2 == <<"I", "N", "V", "-", "2">>
\* an Invoice object, by its validated fields
InvoiceObject(number, items) ==
    [kind |-> "Invoice",
     fields |-> InvoiceFields("f1", number,
                              Vendor("ACME", Address("1 Main St", "Springfield", "IL", "US", "62704")),
                              DatePast, Dec(10800, 2), Dec(0, 2), Dec(10800, 2), items, 1),
     validation_warnings |-> "<no attribute>", anomaly_flags |-> "<no attribute>"]
\* main.py:123-128: invoice.dict() with the keys 'validation_warnings' and
\* 'anomaly_flags' added
ExportDict(object, warnings, flags) ==
    [kind |-> "dict", fields |-> object.fields,
     validation_warnings |-> warnings, anomaly_flags |-> flags]

ItemSamples ==
    {<< >>,
     <<InvoiceItem(Widget, SomeInt(2), Dec(5000, 2), Dec(10000, 2))>>,
     <<InvoiceItem(Widget, SomeInt(2), Dec(5000, 2), Dec(10000, 2)),
       InvoiceItem(<<"B">>, SomeInt(1), Dec(800, 2), Dec(800, 2))>>}
InvoiceObjects == {InvoiceObject(number, items) : number \in {INV1, INV2}, items \in ItemSamples}
ExportDicts ==
    {ExportDict(InvoiceObject(INV1, ItemSamples_one), <<"Total mismatch">>, <<"High amount">>) :
        ItemSamples_one \in {items \in ItemSamples : Len(items) = 1}}
    \cup {ExportDict(InvoiceObject(INV2, << >>), << >>, << >>)}
InvoiceLists ==
    UNION {[1..n -> InvoiceObjects \cup ExportDicts] : n \in 0..MaxInvoices}
Formats == {"csv", "excel", "pdf"}

\* exporter.py:14-19
columns ==
    {"Filename", "Invoice Number", "Vendor Name", "Vendor Street", "Vendor City",
     "Vendor State", "Vendor Postal Code", "Vendor Country", "Invoice Date",
     "Grand Total", "Taxes", "Final Total", "Pages"}
item_columns == {"Invoice Number", "Description", "Quantity", "Unit Price", "Total"}

\* exporter.py:43-57: the row of an invoice, a dict over self.columns
InvoiceRow(f) ==
    [c \in columns |->
        CASE c = "Filename" -> f.filename
          [] c = "Invoice Number" -> f.invoice_number
          [] c = "Vendor Name" -> f.vendor.name
          [] c = "Vendor Street" -> f.vendor.address.street
          [] c = "Vendor City" -> f.vendor.address.city
          [] c = "Vendor State" -> f.vendor.address.state
          [] c = "Vendor Postal Code" -> f.vendor.address.postal_code
          [] c = "Vendor Country" -> f.vendor.address.country
          [] c = "Invoice Date" -> f.invoice_date
          [] c = "Grand Total" -> f.grand_total
          [] c = "Taxes" -> f.taxes
          [] c = "Final Total" -> f.final_total
          [] c = "Pages" -> f.pages]
\* exporter.py:61-67
ItemRow(f, item) ==
    [c \in item_columns |->
        CASE c = "Invoice Number" -> f.invoice_number
          [] c = "Description" -> item.description
          [] c = "Quantity" -> item.quantity
          [] c = "Unit Price" -> item.unit_price
          [] c = "Total" -> item.total]

\* exporter.py:42-67: the rows appended for a list of Invoice objects
RECURSIVE ItemRows(_)
ItemRows(invs) ==
    IF invs = << >> THEN << >>
    ELSE ItemRows(SubSeq(invs, 1, Len(invs) - 1))
            \o [j \in 1..Len(invs[Len(invs)].fields.items) |->
                   ItemRow(invs[Len(invs)].fields, invs[Len(invs)].fields.items[j])]

\* _create_dataframes_sync that appends the item rows of the first invoice only
create_dataframes_sync_first(invs) ==
    [kind |-> "returned",
     rows |-> [k \in 1..Len(invs) |-> InvoiceRow(invs[k].fields)],
     item_rows |-> ItemRows(IF invs = << >> THEN << >> ELSE <<invs[1]>>),
     error |-> ""]

\* exporter.py:39-72: attribute access on a dict raises AttributeError
create_dataframes_sync(invs) ==
    IF \E k \in 1..Len(invs) : invs[k].kind = "dict"
      THEN [kind |-> "raised", rows |-> << >>, item_rows |-> << >>, error |-> "AttributeError"]
      ELSE [kind |-> "returned",
            rows |-> [k \in 1..Len(invs) |-> InvoiceRow(invs[k].fields)],
            item_rows |-> ItemRows(invs),
            error |-> ""]

\* exporter.py:22-33: both formats write the two tables (a CSV stream with
\* the items after 'Line Items:', a workbook with the sheets 'Invoices' and
\* 'Line Items'); any other format raises ValueError
Written_as(format, frames) ==
    IF frames.kind = "raised" THEN frames
    ELSE IF format \in {"csv", "excel"} THEN frames
    ELSE [kind |-> "raised", rows |-> << >>, item_rows |-> << >>, error |-> "ValueError"]
export_invoices(format) ==
    /\ exported = NotExported
    /\ exported' = Written_as(format, create_dataframes_sync(invoices))
    /\ UNCHANGED <<parse_input, invoices, cleanup_log, docai_request>>
    /\ UNCHANGED <<task_vars, engine_vars, extract_vars>>

ExportInit ==
    /\ TaskInit
    /\ EngineIdle
    /\ ExtractIdle
    /\ parse_input = NoAmount
    /\ invoices \in InvoiceLists
    /\ exported = NotExported
    /\ cleanup_log = << >>
    /\ docai_request = NoRequest

ExportNext == \E format \in Formats : export_invoices(format)

ExportSpec == ExportInit /\ [][ExportNext]_vars

\* the number of item rows written before those of invoice k
RECURSIVE ItemsBefore(_)
ItemsBefore(k) == IF k <= 1 THEN 0 ELSE ItemsBefore(k - 1) + Len(invoices[k - 1].fields.items)
AllInvoiceObjects == \A k \in 1..Len(invoices) : invoices[k].kind = "Invoice"

\* C24: the export of a list of Invoice objects holds one invoice row per
\* invoice and one item row per line item, in order, each item row with the
\* invoice number of the invoice that owns the item; an invoice without
\* items adds no item row.
C24_RowPerInvoiceAndItem ==
    (exported.kind = "returned" /\ AllInvoiceObjects)
        => /\ Len(exported.rows) = Len(invoices)
           /\ \A k \in 1..Len(invoices) :
                 exported.rows[k]["Invoice Number"] = invoices[k].fields.invoice_number
           /\ Len(exported.item_rows) = ItemsBefore(Len(invoices) + 1)
           /\ \A k \in 1..Len(invoices) :
                 \A j \in 1..Len(invoices[k].fields.items) :
                    /\ exported.item_rows[ItemsBefore(k) + j]["Invoice Number"]
                          = invoices[k].fields.invoice_number
                    /\ exported.item_rows[ItemsBefore(k) + j]["Description"]
                          = invoices[k].fields.items[j].description
\* an export returned for an invoice without items followed by one with two
C24_Witness ==
    /\ exported.kind = "returned"
    /\ AllInvoiceObjects
    /\ Len(invoices) = 2
    /\ Len(invoices[1].fields.items) = 0
    /\ Len(invoices[2].fields.items) = 2
    /\ Len(exported.item_rows) = 2

\* C25: every exported invoice row carries the validation warnings and the
\* anomaly flags that were attached to its invoice before the export.
C25_AnnotationsExported ==
    (exported.kind # "none" /\ exported.error # "ValueError")
        => /\ exported.kind = "returned"
           /\ \A k \in 1..Len(invoices) :
                 /\ {"validation_warnings", "anomaly_flags"} \subseteq DOMAIN exported.rows[k]
                 /\ exported.rows[k]["validation_warnings"] = invoices[k].validation_warnings
                 /\ exported.rows[k]["anomaly_flags"] = invoices[k].anomaly_flags

\* ------------------------------------------------ DataExtractor: properties
\* the docai_result holds structured entities
HasEntities == docai_result.present /\ docai_result.has_entities
\* the keyword arguments of the structured candidate of the call
Candidate == DocaiFields(docai_result, ocr_results[1].filename)

\* C17: extract_invoice_data returns the candidate built from the structured
\* entities exactly when entities are present and the candidate has an
\* invoice number, a vendor name, an invoice date or a grand total; in every
\* other case it returns the heuristic result.
C17_StructuredIffValid ==
    extracted.call = "extract_invoice_data"
        => /\ extracted.kind = "returned"
           /\ extracted.invoices[1].tier =
                 (IF HasEntities /\ is_invoice_valid(Candidate) THEN "docai" ELSE "gcv")

\* C18: extract_data returns one Invoice for each OCR result of its list and
\* never raises, whatever the results hold.
C18_OneInvoicePerInput ==
    extracted.call = "extract_data"
        => /\ extracted.kind = "returned"
           /\ Len(extracted.invoices) = Len(ocr_results)

\* the fields pass every check of Invoice but, perhaps, the totals equation
ValidButForEquation(f) ==
    /\ ~f.final_total.none /\ f.final_total.coef >= 0
    /\ InvoiceOk([f EXCEPT !.final_total = DecAdd(f.grand_total, f.taxes)])

\* C19: an invoice whose final total is off grand total plus taxes by more
\* than 0.01 is kept: the call that builds it returns it.
C19_TotalsMismatchKept ==
    (/\ extracted.call = "extract_invoice_data"
     /\ HasEntities
     /\ ValidButForEquation(Candidate)
     /\ ~validate_final_total(Candidate))
        => /\ extracted.kind = "returned"
           /\ extracted.invoices[1].fields = Candidate

\* the cells pass every check of InvoiceItem but, perhaps, the item equation
ValidButForItemEquation(item) ==
    /\ ~item.total.none /\ item.total.coef >= 0
    /\ InvoiceItem(item.description, item.quantity, item.unit_price,
                   DecTimes(item.quantity.v, item.unit_price)).ok

\* C20: a table row whose total is off quantity times unit price by more
\* than 0.01 still gives its item: _extract_items returns an item for every
\* row after the header whose cells are otherwise valid.
C20_ItemMismatchKept ==
    extracted.call = "_extract_items"
        => \A t \in 1..Len(ocr_results[1].tables) :
              \A r \in 2..Len(ocr_results[1].tables[t]) :
                  ValidButForItemEquation(RowItem(ocr_results[1].tables[t][r]))
                      => \E k \in 1..Len(extracted.invoices) :
                             /\ extracted.invoices[k].description = ocr_results[1].tables[t][r][1]
                             /\ extracted.invoices[k].total = RowItem(ocr_results[1].tables[t][r]).total

\* the amount written after the first label of the text that is `label` itself
AmountAfter(amounts, label) ==
    parse_decimal(amounts[Least({k \in 1..Len(amounts) : amounts[k].label = label})].amount)
Labels(amounts) == {amounts[k].label : k \in 1..Len(amounts)}

\* C21: for a text with a "Subtotal", a "Tax" and a "Total" amount,
\* _extract_totals gives the subtotal amount as grand total, the tax amount as
\* taxes and the amount after the "Total" label as final total (100.00, 8.00
\* and 108.00 for Subtotal: $100.00 Tax: $8.00 Total: $108.00).
C21_TotalsByOwnLabel ==
    (/\ extracted.call = "_extract_totals"
     /\ {"Subtotal", "Tax", "Total"} \subseteq Labels(ocr_results[1].amounts))
        => extracted.invoices = <<AmountAfter(ocr_results[1].amounts, "Subtotal"),
                                  AmountAfter(ocr_results[1].amounts, "Tax"),
                                  AmountAfter(ocr_results[1].amounts, "Total")>>

\* no string of the text parses as a date at any stage
NoDateParses(dates) == \A k \in 1..Len(dates) : dates[k].parsed = NoneStr

\* C22: when no string of the text parses as a date at any search stage,
\* _extract_date returns None and _extract_from_gcv passes None as the
\* invoice date: no date is made up.
C22_NoDateIsAbsent ==
    (extracted.call = "_extract_date" /\ NoDateParses(ocr_results[1].dates))
        => /\ extracted.invoices = <<NoneStr>>
           /\ GcvFields(ocr_results[1]).invoice_date = NoneStr
\* _extract_date has returned for a text whose date strings all fail to parse
C22_Witness ==
    /\ extracted.call = "_extract_date"
    /\ ocr_results[1].dates # << >>
    /\ NoDateParses(ocr_results[1].dates)
    /\ extracted.invoices = <<NoneStr>>

\* ------------------------------------------- properties of the batching
\* the batch size the documents of the call are cut by
ClaimedSize ==
    Max(1, Min(settings.BATCH_SIZE, Len(documents) \div settings.MAX_WORKERS))
\* the documents whose coroutine has been started
Started == {i \in DOMAIN doc : doc[i].pc # "pending"}

\* C26: batches run one at a time, in order: a document of a later batch
\* is started only when every document of every earlier batch has returned,
\* and process_documents returns to the orchestrator only when every document
\* has returned; nothing is in flight then.
C26_BatchesJoined ==
    /\ \A i, j \in DOMAIN doc :
          ((i - 1) \div ClaimedSize < (j - 1) \div ClaimedSize /\ doc[j].pc # "pending")
              => doc[i].pc = "returned"
    /\ pd_pc = "returned" => \A i \in DOMAIN doc : doc[i].pc = "returned"
\* the second batch of two documents is under way, one of them asleep
\* between two attempts
C26_Witness ==
    /\ pd_pc = "running"
    /\ batch_index = 2
    /\ ClaimedSize = 2
    /\ Len(documents) = 4
    /\ doc[3].pc = "sleep"
    /\ doc[4].pc = "docai"
    /\ doc[1].pc = "returned" /\ doc[2].pc = "returned"

\* C27: the documents are cut, in order, into consecutive batches of
\* max(1, min(BATCH_SIZE, total div MAX_WORKERS)) documents: while batch k is
\* the current one exactly the first min(k * size, total) documents have been
\* started, batch k is not empty, and the call returns only when the batches
\* have covered every document.
C27_ConsecutiveBatches ==
    pd_pc \in {"running", "returned", "raised"}
        => /\ Started = 1..Min(batch_index * ClaimedSize, Len(documents))
           /\ (batch_index - 1) * ClaimedSize < Len(documents)
           /\ pd_pc = "returned" => batch_index * ClaimedSize >= Len(documents)
\* three documents in batches of two: the call returned after the second
\* batch, which held one document
C27_Witness ==
    /\ pd_pc = "returned"
    /\ Len(documents) = 3
    /\ ClaimedSize = 2
    /\ batch_index = 2
    /\ Started = 1..3

\* C28: the join of batch k reports min(k * size, total) processed documents,
\* never more than total and never less than the join before; it reports
\* total, progress 100 and 'Complete' when batch k is the last one and a
\* smaller count with 'Processing' when it is not.
C28_ProcessedCount ==
    [][(pd_pc = "running" /\ (batch_index' # batch_index \/ pd_pc' = "returned"))
          => /\ pd_status'.processed = Min(batch_index * ClaimedSize, Len(documents))
             /\ pd_status'.processed <= Len(documents)
             /\ batch_index > 1 => pd_status.processed <= pd_status'.processed
             /\ pd_pc' = "returned" <=> pd_status'.processed = Len(documents)
             /\ pd_pc' = "returned" <=> pd_status'.status = "Complete"
             /\ pd_pc' = "returned" <=> FracEq(pd_status'.progress, Whole(100))
             /\ pd_pc' # "returned" => pd_status'.status = "Processing"]_vars
\* three documents in batches of one: two are reported after the second batch
C28_Witness ==
    /\ pd_pc = "running"
    /\ Len(documents) = 3
    /\ batch_index = 3
    /\ pd_status.processed = 2
    /\ pd_status.status = "Processing"


C32_DocaiFailureGivesHeuristic ==
    (extracted.call = "extract_invoice_data" /\ docai_result = NoDocai)
        => /\ extracted.kind = "returned"
           /\ extracted.invoices[1].tier = "gcv"


\* C33: each of the three totals _extract_totals returns is None, not zero,
\* when the text has no amount under its own label ("Subtotal" for the grand
\* total, "Tax" for the taxes, "Total" for the final total), whatever the
\* other two labels do.
C33_UnmatchedTotalsAbsent ==
    extracted.call = "_extract_totals"
        => /\ "Subtotal" \notin Labels(ocr_results[1].amounts) => extracted.invoices[1] = NoneDec
           /\ "Tax" \notin Labels(ocr_results[1].amounts) => extracted.invoices[2] = NoneDec
           /\ "Total" \notin Labels(ocr_results[1].amounts) => extracted.invoices[3] = NoneDec


\* C34: the items _extract_items returns are those of the rows after the
\* header row of the first table; a later table adds no item.
C34_ItemsFromFirstTable ==
    extracted.call = "_extract_items"
        => extracted.invoices =
              extract_items(IF ocr_results[1].tables = << >> THEN << >>
                            ELSE <<ocr_results[1].tables[1]>>)

\* the rows after the header row, table after table
RECURSIVE BodyRows(_)
BodyRows(tables) ==
    IF tables = << >> THEN << >>
    ELSE BodyRows(SubSeq(tables, 1, Len(tables) - 1))
            \o (IF Len(tables[Len(tables)]) > 1 THEN Tail(tables[Len(tables)]) ELSE << >>)
\* the row parses as description, integer quantity, decimal price and total
\* and makes an InvoiceItem
Parseable(row) == RowItem(row).ok
HasSkippedRow(tables) == \E k \in 1..Len(BodyRows(tables)) : ~Parseable(BodyRows(tables)[k])
ParseableItems(tables) ==
    [k \in 1..Len(SelectSeq(BodyRows(tables), Parseable)) |->
        RowItem(SelectSeq(BodyRows(tables), Parseable)[k])]

\* _extract_items returns exactly the parseable rows, in table order
ItemsAreParseableRows ==
    extracted.call = "_extract_items"
        => extracted.invoices = ParseableItems(ocr_results[1].tables)

\* C35: a table row that does not parse is skipped: _extract_items returns
\* exactly the items of the parseable rows, in table order, and the heuristic
\* extraction of a result with such a row still returns its Invoice, with
\* those items.
C35_BadRowsSkipped ==
    /\ ItemsAreParseableRows
    /\ (/\ extracted.call = "extract_invoice_data"
        /\ docai_result = NoDocai
        /\ HasSkippedRow(ocr_results[1].tables))
          => /\ extracted.kind = "returned"
             /\ extracted.invoices[1].fields.items = ParseableItems(ocr_results[1].tables)


\* ------------------------------------------- more properties of the tasks
\* C36: a task with an entry in direct_results has the status Completed or
\* Failed: never Queued, Processing or Cancelled.
C36_ResultOnlyWhenTerminal ==
    \A t \in DOMAIN direct_results :
        /\ t \in DOMAIN processing_tasks
        /\ processing_tasks[t].status \in {"Completed", "Failed"}
\* a result stored for a task that a cancel request had set to Cancelled
\* while its worker was running
C36_Witness ==
    \E t \in DOMAIN direct_results :
        /\ t \in cancel_issued
        /\ direct_results[t].status = "Completed"
        /\ processing_tasks[t].status = "Completed"

\* C37: after upload_files failed before scheduling any processing, the task
\* id it registered as Queued is no longer registered, or is Failed.
C37_FailedUploadNotQueued ==
    \A t \in TaskIds :
        pc[t] = "upload_failed"
            => \/ t \notin DOMAIN processing_tasks
               \/ processing_tasks[t].status = "Failed"

\* C38: while a task is reported successful (Completed in direct_results,
\* SUCCESS in the task queue's backend) the csv and xlsx files named in its
\* payload exist.
C38_OutputsExistOnSuccess ==
    /\ \A t \in DOMAIN direct_results :
          direct_results[t].status = "Completed" => direct_results[t].paths \subseteq temp_dir[t]
    /\ \A t \in DOMAIN celery_backend :
          celery_backend[t].state = "SUCCESS" => celery_backend[t].meta.paths \subseteq temp_dir[t]


\* C39: the dict process_documents returns has one entry per document of the
\* call, also when two of the documents have the same filename.
C39_OneResultPerDocument ==
    pd_pc = "returned" => Cardinality(DOMAIN results) = Len(documents)


\* ------------------------------------------------------------ the range of progress
MaxLoopTotal == 12   \* entries of one extraction loop in the range check

\* every status ever written for a task has 0 <= progress <= 100 (models.py:87)
ProgressInField ==
    \A t \in TaskIds : \A k \in DOMAIN hist[t] :
        /\ FracLeq(Whole(0), hist[t][k].progress)
        /\ FracLeq(hist[t][k].progress, Whole(100))

\* 20 <= p < 60
InLoopRange(p) == FracLeq(Whole(20), p) /\ ~FracLeq(Whole(60), p)

\* int(20 + i/total*40) over every loop of 1..MaxLoopTotal entries
LoopProgressInRange ==
    \A total \in 1..MaxLoopTotal : \A i \in 0..(total - 1) :
        InLoopRange(Whole(LoopProgress(i, total)))

\* a step of the extraction loop (the only steps that advance i) writes a
\* progress in [20, 60)
LoopWriteInRange ==
    \A t \in TaskIds :
        loop_i'[t] = loop_i[t] + 1 =>
            /\ Len(hist'[t]) = Len(hist[t]) + 1
            /\ InLoopRange(hist'[t][Len(hist'[t])].progress)

\* C40: in every reachable state a task's progress lies in [0, 100], and the
\* per-file progress written during the extraction loop lies in [20, 60), below
\* the 60 milestone that follows it, for every number of files >= 1.
C40_ProgressInRange ==
    /\ [](ProgressInField /\ LoopProgressInRange)
    /\ [][LoopWriteInRange]_vars

\* the last iteration of a loop over two entries wrote 40 and the worker stands
\* before the 60 milestone
C40_Witness ==
    \E t \in Registered :
        /\ pc[t] = "s_60"
        /\ processed_files[t] = 2
        /\ loop_i[t] = 2
        /\ Status(t) = "Processing"
        /\ processing_tasks[t].progress = Whole(40)

====
